---- MODULE Spec2Model ----
(***************************************************************************)
(* AI Content Studio: the content-creation workflow.                       *)
(*                                                                         *)
(* ContentCreationTask.create_content sequences a research call and a      *)
(* writing call, threads the research output into the writer's prompt and  *)
(* assembles one record.  Text is modelled as a sequence of one-character  *)
(* strings so that strip, split, lower, substring search and join are      *)
(* computed as Python computes them.                                       *)
(***************************************************************************)
EXTENDS Integers, Sequences, FiniteSets, TLC

VARIABLES agents, pc, request, research_result, writer_args, content_draft,
          content_result, final_result, raised, thrown, calls, prompts, clock, http,
          extraction, threads, frames, capability, task, wrapper

vars == <<agents, pc, request, research_result, writer_args, content_draft,
          content_result, final_result, raised, thrown, calls, prompts, clock, http,
          extraction, threads, frames, capability, task, wrapper>>

(***************************************************************************)
(* Bounds of the model.                                                    *)
(***************************************************************************)
\* number of fact, source and insight lines in the long sample completion
MaxItems == 6
\* largest reading of the wall clock
MaxClock == 2

(***************************************************************************)
(* Python values.                                                          *)
(***************************************************************************)
\* Python's None; Some(v) is a value that is not None
None == [none |-> TRUE]
Some(v) == [val |-> v]

Min(a, b) == IF a < b THEN a ELSE b

(***************************************************************************)
(* Python str operations on character sequences.                           *)
(***************************************************************************)
Whitespace == {" ", "\n", "\t"}

UpperLetters == <<"A", "B", "C", "D", "E", "F", "G", "H", "I", "J", "K", "L", "M",
                  "N", "O", "P", "Q", "R", "S", "T", "U", "V", "W", "X", "Y", "Z">>
LowerLetters == <<"a", "b", "c", "d", "e", "f", "g", "h", "i", "j", "k", "l", "m",
                  "n", "o", "p", "q", "r", "s", "t", "u", "v", "w", "x", "y", "z">>

\* str.lower() on one character
lower_char(c) ==
    IF \E i \in 1..Len(UpperLetters) : UpperLetters[i] = c
    THEN LowerLetters[CHOOSE i \in 1..Len(UpperLetters) : UpperLetters[i] = c]
    ELSE c

\* str.lower()
lower(s) == [i \in 1..Len(s) |-> lower_char(s[i])]

\* the k-th smallest member of a set of positions
kth(positions, k) == CHOOSE i \in positions : Cardinality({j \in positions : j < i}) = k - 1

\* str.strip(): leading and trailing whitespace removed
strip(s) ==
    LET kept == {i \in 1..Len(s) : s[i] \notin Whitespace}
    IN  IF kept = {} THEN <<>>
        ELSE SubSeq(s, kth(kept, 1), kth(kept, Cardinality(kept)))

\* the pieces of s between the positions seps, of which there are n
pieces(s, seps, n) ==
    [k \in 1..(n + 1) |->
        SubSeq(s, IF k = 1 THEN 1 ELSE kth(seps, k - 1) + 1,
                  IF k = n + 1 THEN Len(s) ELSE kth(seps, k) - 1)]

\* the variant str.split(' '): every single blank separates, empty tokens kept
split_single_blank(s) ==
    LET seps == {i \in 1..Len(s) : s[i] = " "}
    IN  pieces(s, seps, Cardinality(seps))

\* str.split() without a separator: the maximal runs of non-whitespace
\* characters, each from the position where it starts to where it ends
split(s) ==
    LET starts == {i \in 1..Len(s) :
                      s[i] \notin Whitespace /\ (i = 1 \/ s[i - 1] \in Whitespace)}
        ends == {i \in 1..Len(s) :
                    s[i] \notin Whitespace /\ (i = Len(s) \/ s[i + 1] \in Whitespace)}
    IN  [k \in 1..Cardinality(starts) |-> SubSeq(s, kth(starts, k), kth(ends, k))]

\* str.split('\n'): the pieces between newlines, empty pieces kept
split_lines(s) ==
    LET seps == {i \in 1..Len(s) : s[i] = "\n"}
    IN  pieces(s, seps, Cardinality(seps))

\* needle in hay
contains(hay, needle) ==
    \E i \in 0..(Len(hay) - Len(needle)) : SubSeq(hay, i + 1, i + Len(needle)) = needle

\* sep.join(items)
RECURSIVE join(_, _)
join(sep, items) ==
    IF items = <<>> THEN <<>>
    ELSE IF Len(items) = 1 THEN items[1]
    ELSE items[1] \o sep \o join(sep, Tail(items))

\* items[:n]
take(items, n) == SubSeq(items, 1, Min(n, Len(items)))

\* the decimal digits: what \d matches and what int() and str() of an int
\* read and write
DecimalDigits == <<"0", "1", "2", "3", "4", "5", "6", "7", "8", "9">>
DigitChars == {DecimalDigits[i] : i \in 1..Len(DecimalDigits)}

\* int() of a str of decimal digits
RECURSIVE int(_)
int(digits) ==
    IF digits = <<>> THEN 0
    ELSE int(SubSeq(digits, 1, Len(digits) - 1)) * Len(DecimalDigits)
         + (CHOOSE d \in 0..(Len(DecimalDigits) - 1) :
                DecimalDigits[d + 1] = digits[Len(digits)])

(***************************************************************************)
(* BaseAgent: the hooks every agent shares.                                *)
(***************************************************************************)
\* BaseAgent.postprocess_output
postprocess_output(output_data) == strip(output_data)

\* the except clause of BaseAgent.execute_task: log, then a bare raise
execute_task_except(e) == e

\* an execute_task that sends its task to the completion client a second time
execute_task_twice(task_input) == <<task_input, task_input>>

\* the try block of BaseAgent.execute_task: what it sends to the completion
\* client, one self.agent.execute_task(task_input)
execute_task(task_input) == <<task_input>>

(***************************************************************************)
(* ResearchAgent.                                                          *)
(***************************************************************************)
\* a validate_input that forgets to strip
validate_input_unstripped(input_data) == Len(input_data) > 0

\* ResearchAgent.validate_input on a str
research_validate_input(input_data) == Len(strip(input_data)) > 0

\* the task description research_topic sends to the completion client: the
\* fixed template with its four interpolated values
research_task_description(topic, research_depth, content_type, target_audience) ==
    [agent |-> "Research Specialist",
     research_depth |-> research_depth,
     topic |-> topic,
     content_type |-> content_type,
     target_audience |-> target_audience]

KeyFactKeywords ==
    { <<"f", "a", "c", "t">>,
      <<"s", "t", "a", "t", "i", "s", "t", "i", "c">>,
      <<"d", "a", "t", "a">>,
      <<"f", "i", "g", "u", "r", "e">> }

SourceKeywords ==
    { <<"s", "o", "u", "r", "c", "e">>,
      <<"r", "e", "f", "e", "r", "e", "n", "c", "e">>,
      <<"s", "t", "u", "d", "y">>,
      <<"r", "e", "p", "o", "r", "t">> }

InsightKeywords ==
    { <<"i", "n", "s", "i", "g", "h", "t">>,
      <<"f", "i", "n", "d", "i", "n", "g">>,
      <<"d", "i", "s", "c", "o", "v", "e", "r", "y">>,
      <<"o", "b", "s", "e", "r", "v", "a", "t", "i", "o", "n">> }

RecommendationKeywords ==
    { <<"r", "e", "c", "o", "m", "m", "e", "n", "d">>,
      <<"s", "u", "g", "g", "e", "s", "t">>,
      <<"a", "d", "v", "i", "s", "e">>,
      <<"p", "r", "o", "p", "o", "s", "e">> }

\* an extraction loop that matches the keywords against the line as written
extract_from_case_sensitive(lines, keywords) ==
    LET matches(line) == \E keyword \in keywords : contains(line, keyword)
        kept == SelectSeq(lines, matches)
    IN  [i \in 1..Len(kept) |-> strip(kept[i])]

\* the loop shared by the _extract_* helpers: every line whose lower-cased
\* form contains one of the keywords is kept, stripped, in line order
extract_from(lines, keywords) ==
    LET matches(line) == \E keyword \in keywords : contains(lower(line), keyword)
        kept == SelectSeq(lines, matches)
    IN  [i \in 1..Len(kept) |-> strip(kept[i])]

extract_key_facts(text) == extract_from(split_lines(text), KeyFactKeywords)
extract_sources(text) == extract_from(split_lines(text), SourceKeywords)
extract_insights(text) == extract_from(split_lines(text), InsightKeywords)
extract_recommendations(text) == extract_from(split_lines(text), RecommendationKeywords)

\* a parse that falls back on the whole text when no line is a key fact
parse_research_result_with_fallback(research_text, topic) ==
    [topic |-> topic,
     research_findings |-> research_text,
     key_facts |-> IF extract_key_facts(research_text) = <<>> THEN <<research_text>>
                   ELSE extract_key_facts(research_text),
     sources |-> extract_sources(research_text),
     insights |-> extract_insights(research_text),
     recommendations |-> extract_recommendations(research_text)]

\* ResearchAgent._parse_research_result
parse_research_result(research_text, topic) ==
    [topic |-> topic,
     research_findings |-> research_text,
     key_facts |-> extract_key_facts(research_text),
     sources |-> extract_sources(research_text),
     insights |-> extract_insights(research_text),
     recommendations |-> extract_recommendations(research_text)]

(***************************************************************************)
(* WriterAgent.                                                            *)
(***************************************************************************)
\* WriterAgent.validate_input on a str
writer_validate_input(input_data) == Len(strip(input_data)) > 0

\* an `is not None` test in place of the truth value
truthy_list_is_not_none(x) == x # None

\* Python's truth value of an Optional[List[str]] or of a str
truthy_list(x) == x # None /\ x.val # <<>>
truthy_str(s) == s # <<>>

\* a create_content_draft that asks for at least one word
writer_task_description_clamped(topic, content_type, target_audience, word_count, tone, keywords, additional_requirements) ==
    [agent |-> "Content Writer",
     topic |-> topic,
     content_type |-> content_type,
     target_audience |-> target_audience,
     word_count |-> IF word_count < 1 THEN 1 ELSE word_count,
     tone |-> tone,
     keywords_segment |->
         IF truthy_list(keywords) THEN Some(join(<<",", " ">>, keywords.val)) ELSE None,
     additional_segment |->
         IF truthy_str(additional_requirements) THEN Some(additional_requirements)
         ELSE None]

\* the task description create_content_draft sends to the completion client:
\* the template's interpolated values, and the two optional segments, each
\* present only when its `if` holds
writer_task_description(topic, content_type, target_audience, word_count, tone, keywords, additional_requirements) ==
    [agent |-> "Content Writer",
     topic |-> topic,
     content_type |-> content_type,
     target_audience |-> target_audience,
     word_count |-> word_count,
     tone |-> tone,
     keywords_segment |->
         IF truthy_list(keywords) THEN Some(join(<<",", " ">>, keywords.val)) ELSE None,
     additional_segment |->
         IF truthy_str(additional_requirements) THEN Some(additional_requirements)
         ELSE None]

(***************************************************************************)
(* ContentCreationTask: the pure parts.                                    *)
(***************************************************************************)
\* the slices of _prepare_research_requirements
KeyFactsLimit == 5
SourcesLimit == 3
InsightsLimit == 3

KeyFactsLabel == <<"K", "e", "y", " ", "F", "a", "c", "t", "s", ":", " ">>
SourcesLabel == <<"C", "r", "e", "d", "i", "b", "l", "e", " ", "S", "o", "u", "r", "c",
                  "e", "s", ":", " ">>
InsightsLabel == <<"K", "e", "y", " ", "I", "n", "s", "i", "g", "h", "t", "s", ":", " ">>
CommaSpace == <<",", " ">>
Newline == <<"\n">>

\* the list `requirements` built without the three slices
requirements_list_unsliced(research_data) ==
    (IF "key_facts" \in DOMAIN research_data
     THEN <<KeyFactsLabel \o join(CommaSpace, research_data.key_facts)>>
     ELSE <<>>)
    \o
    (IF "sources" \in DOMAIN research_data
     THEN <<SourcesLabel \o join(CommaSpace, research_data.sources)>>
     ELSE <<>>)
    \o
    (IF "insights" \in DOMAIN research_data
     THEN <<InsightsLabel \o join(CommaSpace, research_data.insights)>>
     ELSE <<>>)

\* the list `requirements` that _prepare_research_requirements builds: one
\* labelled line for each of the three keys the research dict has
requirements_list(research_data) ==
    (IF "key_facts" \in DOMAIN research_data
     THEN <<KeyFactsLabel \o join(CommaSpace, take(research_data.key_facts, KeyFactsLimit))>>
     ELSE <<>>)
    \o
    (IF "sources" \in DOMAIN research_data
     THEN <<SourcesLabel \o join(CommaSpace, take(research_data.sources, SourcesLimit))>>
     ELSE <<>>)
    \o
    (IF "insights" \in DOMAIN research_data
     THEN <<InsightsLabel \o join(CommaSpace, take(research_data.insights, InsightsLimit))>>
     ELSE <<>>)

\* a block that leaves out the line of a field that is an empty list
prepare_research_requirements_skipping_empty(research_data) ==
    LET bare(line) == line \in {KeyFactsLabel, SourcesLabel, InsightsLabel}
        filled(line) == ~bare(line)
    IN  IF SelectSeq(requirements_list(research_data), filled) # <<>>
        THEN join(Newline, SelectSeq(requirements_list(research_data), filled))
        ELSE <<>>

\* ContentCreationTask._prepare_research_requirements
prepare_research_requirements(research_data) ==
    IF requirements_list(research_data) # <<>>
    THEN join(Newline, requirements_list(research_data))
    ELSE <<>>

\* `keywords or []`
keywords_or_empty(keywords) == IF truthy_list(keywords) THEN keywords.val ELSE <<>>

\* len(content_draft.split(' ')) and len(content_draft)
word_count_single_blank(draft) == Len(split_single_blank(draft))
word_count_chars(draft) == Len(draft)

\* len(content_draft.split())
word_count_actual(draft) == Len(split(draft))

\* a dict that lists only the keywords found in the draft
draft_result_keywords_found(draft, keywords) ==
    [draft_content |-> draft,
     research_incorporated |-> TRUE,
     word_count_actual |-> word_count_actual(draft),
     keywords_used |-> LET found(keyword) == contains(draft, keyword)
                       IN  SelectSeq(keywords_or_empty(keywords), found)]

\* a dict whose flag says whether the writer returned any text
draft_result_flag_from_draft(draft, keywords) ==
    [draft_content |-> draft,
     research_incorporated |-> draft # <<>>,
     word_count_actual |-> word_count_actual(draft),
     keywords_used |-> keywords_or_empty(keywords)]

\* the dict _create_draft returns
draft_result(draft, keywords) ==
    [draft_content |-> draft,
     research_incorporated |-> TRUE,
     word_count_actual |-> word_count_actual(draft),
     keywords_used |-> keywords_or_empty(keywords)]

\* the text of the reading the clock gave when the task was built
isoformat_at_construction(t) == [isoformat |-> 0]

\* datetime.isoformat of a clock reading
isoformat(t) == [isoformat |-> t]

\* the compiled dict with the measured word count in place of the requested
compile_final_result_measured(req, research, content, timestamp) ==
    [topic |-> req.topic,
     content_type |-> req.content_type,
     target_audience |-> req.target_audience,
     word_count |-> content.word_count_actual,
     tone |-> req.tone,
     keywords |-> req.keywords,
     research_data |-> research,
     content |-> content,
     creation_timestamp |-> timestamp,
     status |-> "completed"]

\* the dict create_content compiles in its third step
compile_final_result(req, research, content, timestamp) ==
    [topic |-> req.topic,
     content_type |-> req.content_type,
     target_audience |-> req.target_audience,
     word_count |-> req.word_count,
     tone |-> req.tone,
     keywords |-> req.keywords,
     research_data |-> research,
     content |-> content,
     creation_timestamp |-> timestamp,
     status |-> "completed"]

\* an except clause that raises a new exception in place of the caught one
create_content_except_wrapped(e) ==
    [type |-> "RuntimeError", message |-> "content creation failed"]

\* the except clause of create_content: log, then a bare raise
create_content_except(e) == e

\* a body of create_content that starts with the draft
first_step_draft == "draft"

\* the order of the steps in the body of create_content
first_step == "research"

\* a body that runs a step again when it has returned
step_after_retrying(step) == step

\* the step that follows a step that has returned
step_after(step) == IF step = "research" THEN "draft" ELSE "compile"

(***************************************************************************)
(* The inputs.                                                             *)
(***************************************************************************)
TopicEV == <<"e", "l", "e", "c", "t", "r", "i", "c", " ", "v", "e", "h", "i", "c", "l",
             "e", "s">>
TopicEmpty == <<>>
TopicBlank == <<" ", "\n", "\t">>

KeywordEV == <<"E", "V">>
KeywordBattery == <<"b", "a", "t", "t", "e", "r", "y">>

Topics == {TopicEV, TopicEmpty, TopicBlank}
KeywordChoices == {None, Some(<<>>), Some(<<KeywordEV, KeywordBattery>>)}
WordCounts == {-5, 3, 500}

Requests ==
    [topic : Topics,
     content_type : {"article", "blog"},
     target_audience : {"general"},
     word_count : WordCounts,
     tone : {"professional", "sarcastic"},
     keywords : KeywordChoices,
     research_depth : {"comprehensive", "bottomless"}]

Digits == <<"1", "2", "3", "4", "5", "6", "7", "8", "9">>

\* the lines prefix1 .. prefixn
RECURSIVE numbered(_, _)
numbered(prefix, n) ==
    IF n = 0 THEN <<>> ELSE Append(numbered(prefix, n - 1), prefix \o <<Digits[n]>>)

\* "Fact A\n  Data from a Study \nKey finding X\nWe suggest Y\nplain line"
TextMixed ==
    <<"F", "a", "c", "t", " ", "A", "\n", " ", " ", "D", "a", "t", "a", " ", "f", "r",
      "o", "m", " ", "a", " ", "S", "t", "u", "d", "y", " ", "\n", "K", "e", "y", " ",
      "f", "i", "n", "d", "i", "n", "g", " ", "X", "\n", "W", "e", " ", "s", "u", "g",
      "g", "e", "s", "t", " ", "Y", "\n", "p", "l", "a", "i", "n", " ", "l", "i", "n",
      "e">>
\* "fact 1\n..\nstudy 1\n..\ninsight 1\n..": MaxItems lines for each bucket
TextLong ==
    join(Newline, numbered(<<"f", "a", "c", "t", " ">>, MaxItems)
                  \o numbered(<<"s", "t", "u", "d", "y", " ">>, MaxItems)
                  \o numbered(<<"i", "n", "s", "i", "g", "h", "t", " ">>, MaxItems))
\* "nothing relevant"
TextPlain ==
    <<"n", "o", "t", "h", "i", "n", "g", " ", "r", "e", "l", "e", "v", "a", "n", "t">>
\* "  EVs are transforming transport with battery tech.\n"
TextEV ==
    <<" ", " ", "E", "V", "s", " ", "a", "r", "e", " ", "t", "r", "a", "n", "s", "f",
      "o", "r", "m", "i", "n", "g", " ", "t", "r", "a", "n", "s", "p", "o", "r", "t",
      " ", "w", "i", "t", "h", " ", "b", "a", "t", "t", "e", "r", "y", " ", "t", "e",
      "c", "h", ".", "\n">>
\* "one  two\n\tthree "
TextSpaced ==
    <<"o", "n", "e", " ", " ", "t", "w", "o", "\n", "\t", "t", "h", "r", "e", "e", " ">>
\* " \n "
TextBlank == <<" ", "\n", " ">>

\* what the completion client may return
CompletionTexts == {<<>>, TextMixed, TextLong, TextPlain, TextEV, TextSpaced, TextBlank}

\* how the completion client may fail
UpstreamFailures ==
    {[type |-> "Timeout", message |-> "request timed out"],
     [type |-> "RateLimitError", message |-> "rate limit reached"]}

ValueError == [type |-> "ValueError", message |-> "Topic cannot be empty"]

(***************************************************************************)
(* Stub collaborators: ContentCreationTask takes its two agents as          *)
(* constructor arguments, so a test gives it agents that answer with canned *)
(* values.                                                                 *)
(***************************************************************************)
FactA == <<"F", "a", "c", "t", " ", "A">>
FactB == <<"F", "a", "c", "t", " ", "B">>
Src1 == <<"S", "r", "c", "1">>

\* the research dict of the end-to-end scenario
ResearchEV == [key_facts |-> <<FactA, FactB>>, sources |-> <<Src1>>, insights |-> <<>>]

\* what a stub research agent may return: dicts with all, some or none of
\* the keys the requirements block reads
StubResearchResults ==
    {ResearchEV,
     [key_facts |-> <<>>, sources |-> <<>>, insights |-> <<>>],
     [key_facts |-> numbered(<<"F">>, MaxItems), sources |-> numbered(<<"S">>, MaxItems)],
     [topic |-> TopicEV, recommendations |-> << <<"R", "e", "c", " ", "1">> >>],
     [key_facts |-> <<FactA>>, insights |-> <<>>, research_findings |-> TextPlain,
      recommendations |-> << <<"R", "e", "c", " ", "2">> >>]}

\* "EVs are transforming transport with battery tech."
DraftEV ==
    <<"E", "V", "s", " ", "a", "r", "e", " ", "t", "r", "a", "n", "s", "f", "o", "r",
      "m", "i", "n", "g", " ", "t", "r", "a", "n", "s", "p", "o", "r", "t", " ", "w",
      "i", "t", "h", " ", "b", "a", "t", "t", "e", "r", "y", " ", "t", "e", "c", "h",
      ".">>

\* what a stub writer agent may return
StubDrafts ==
    {DraftEV, <<>>,
     <<"o", "n", "e", " ", "t", "w", "o", " ", "t", "h", "r", "e", "e">>}

(***************************************************************************)
(* BaseTask and its subclasses: the task objects.                          *)
(***************************************************************************)
\* BaseTask.__init__: the attributes of the task and the crewai Task built
\* from the same description and expected_output and from the agent's
\* crewai Agent
BaseTask_init(name, description, agent, expected_output) ==
    [name |-> name,
     description |-> description,
     agent |-> agent,
     expected_output |-> expected_output,
     task |-> [description |-> description,
               agent |-> [agent_of |-> agent],
               expected_output |-> expected_output]]

\* ContentCreationTask(writer_agent, research_agent)
ContentCreationTask ==
    [writer_agent |-> "WriterAgent", research_agent |-> "ResearchAgent"] @@
    BaseTask_init("Content Creation",
                  "Create comprehensive, well-researched content based on given topic and requirements",
                  "WriterAgent",
                  "Complete content piece with proper structure, engaging writing, and factual accuracy")

\* ContentReviewTask(editor_agent), ResearchTask(research_agent),
\* SEOOptimizationTask(seo_agent) and CreativeIdeationTask(creative_agent)
SingleStepTasks ==
    {[editor_agent |-> "EditorAgent"] @@
         BaseTask_init("Content Review",
                       "Review, edit, and improve content for quality, clarity, and engagement",
                       "EditorAgent",
                       "Improved content with detailed review feedback and suggestions"),
     [research_agent |-> "ResearchAgent"] @@
         BaseTask_init("Research",
                       "Conduct comprehensive research on topics for content creation",
                       "ResearchAgent",
                       "Detailed research findings with facts, sources, and insights"),
     [seo_agent |-> "SEOAgent"] @@
         BaseTask_init("SEO Optimization",
                       "Optimize content for search engines with keyword research and SEO best practices",
                       "SEOAgent",
                       "SEO-optimized content with meta tags and keyword analysis"),
     [creative_agent |-> "CreativeAgent"] @@
         BaseTask_init("Creative Ideation",
                       "Generate creative content ideas and innovative approaches",
                       "CreativeAgent",
                       "Creative content ideas with engagement potential and implementation strategies")}

\* a create_content that keeps the topic of its last call on the task
self_after_create_content_remembering(self, req) ==
    [self EXCEPT !.description = "last topic", !.task.description = "last topic"]

\* the task object once create_content has been entered: the method and its
\* helpers assign no attribute of self
self_after_create_content(self, req) == self

(***************************************************************************)
(* The state.                                                              *)
(*   agents           "real": the task holds a ResearchAgent and a         *)
(*                    WriterAgent; "stub": it holds stub collaborators;    *)
(*                    "stub research": a stub ResearchAgent and a          *)
(*                    WriterAgent                                          *)
(*   pc               where the one create_content call of the task is     *)
(*   request          its arguments                                        *)
(*   research_result  the local of that name, None until research returned *)
(*   writer_args      the arguments given to create_content_draft          *)
(*   content_draft    the local of _create_draft: what the writer returned, *)
(*                    as Some(text)                                        *)
(*   content_result   the local of that name                               *)
(*   final_result     the dict the call returned                           *)
(*   raised           the exception that left the call                     *)
(*   thrown           that exception as it was first raised                *)
(*   calls            the agent calls of this invocation, in order         *)
(*   prompts          the task descriptions sent to the completion client  *)
(*   clock            the wall clock                                       *)
(*   http             the POST /content/create request being served, None  *)
(*                    when create_content is called directly               *)
(*   extraction       the last call of a result extractor on its own: the  *)
(*                    method, its text and what it returned                *)
(*   threads          the create_content calls that run at the same time   *)
(*                    on the one task: where each is, its arguments, what  *)
(*                    it sent to and got from the completion client, what  *)
(*                    it returned or raised                                *)
(*   frames           the locals of each of these calls                    *)
(*   capability       the capability method of an agent that is being      *)
(*                    called on its own: the method, its primary text      *)
(*                    input, how far it got and what it sent               *)
(*   task             the task object: its attributes and those of the     *)
(*                    crewai Task it holds                                 *)
(*   wrapper          the single-step method of a task that is being       *)
(*                    called: the method, its text argument, how far it    *)
(*                    got, the calls of the agent, the dict returned or    *)
(*                    the exception raised                                 *)
(***************************************************************************)
\* the callers that may be inside create_content at the same time
Threads == {"caller 1", "caller 2"}

\* a caller that is not inside create_content, and locals not yet assigned
IdleThread ==
    [pc |-> "idle", request |-> None, prompts |-> <<>>, answers |-> <<>>,
     result |-> None, raised |-> None]
EmptyFrame ==
    [research_result |-> None, writer_args |-> None, content_draft |-> None,
     content_result |-> None]

InitCall ==
    /\ pc = "idle"
    /\ request = None
    /\ research_result = None
    /\ writer_args = None
    /\ content_draft = None
    /\ content_result = None
    /\ final_result = None
    /\ raised = None
    /\ thrown = None
    /\ calls = <<>>
    /\ prompts = <<>>
    /\ clock = 0
    /\ http = None
    /\ extraction = None
    /\ threads = [t \in Threads |-> IdleThread]
    /\ frames = [t \in Threads |-> EmptyFrame]
    /\ capability = None
    /\ wrapper = None

\* the task as the API module builds it
Init == agents = "real" /\ task = ContentCreationTask /\ InitCall

\* the task built with stub collaborators
InitStub == agents = "stub" /\ task = ContentCreationTask /\ InitCall

\* the task built with a stub ResearchAgent and the repository's WriterAgent
InitStubResearch == agents = "stub research" /\ task = ContentCreationTask /\ InitCall

\* an except clause that answers with a dict in place of raising
return_partial_from_step(origin, e, log, ps) ==
    /\ pc' = "returned"
    /\ thrown' = origin
    /\ raised' = None
    /\ calls' = log
    /\ prompts' = ps
    /\ final_result' = [status |-> "failed", error |-> e, research_data |-> research_result]

\* an exception, first raised as origin and arriving as e, leaves
\* create_content through its except clause
raise_from_step(origin, e, log, ps) ==
    /\ pc' = "raised"
    /\ thrown' = origin
    /\ raised' = create_content_except(e)
    /\ calls' = log
    /\ prompts' = ps
    /\ final_result' = None

\* _conduct_research up to the point where the agent waits for its answer:
\* research_topic validates the topic, builds the task description and
\* hands it to execute_task; a stub only takes the call
enter_research(req, log, ps) ==
    /\ writer_args' = writer_args
    /\ IF agents = "real" /\ ~research_validate_input(req.topic)
       THEN raise_from_step(ValueError, ValueError,
                            log \o <<"research_topic", "research_topic:raise">>, ps)
       ELSE /\ pc' = "research_wait"
            /\ prompts' = IF agents = "real"
                          THEN ps \o execute_task(research_task_description(
                                                      req.topic, req.research_depth,
                                                      req.content_type, req.target_audience))
                          ELSE ps
            /\ calls' = Append(log, "research_topic")
            /\ UNCHANGED <<thrown, raised, final_result>>

\* _create_draft up to the point where the agent waits for its answer: the
\* requirements block is built from the research data, create_content_draft
\* validates the topic, builds the task description and hands it to
\* execute_task; a stub only takes the call
enter_draft(req, research, log, ps) ==
    LET args == [topic |-> req.topic,
                 content_type |-> req.content_type,
                 target_audience |-> req.target_audience,
                 word_count |-> req.word_count,
                 tone |-> req.tone,
                 keywords |-> req.keywords,
                 additional_requirements |-> prepare_research_requirements(research)]
    IN  /\ writer_args' = args
        /\ IF agents # "stub" /\ ~writer_validate_input(args.topic)
           THEN raise_from_step(ValueError, ValueError,
                                log \o <<"create_content_draft",
                                         "create_content_draft:raise">>, ps)
           ELSE /\ pc' = "draft_wait"
                /\ prompts' = IF agents # "stub"
                              THEN ps \o execute_task(writer_task_description(
                                                          args.topic, args.content_type,
                                                          args.target_audience, args.word_count,
                                                          args.tone, args.keywords,
                                                          args.additional_requirements))
                              ELSE ps
                /\ calls' = Append(log, "create_content_draft")
                /\ UNCHANGED <<thrown, raised, final_result>>

\* the third step: the record is compiled, the clock read, the dict returned
enter_compile(req, research, content, log, ps) ==
    /\ pc' = "returned"
    /\ final_result' = compile_final_result(req, research, content, isoformat(clock))
    /\ calls' = log
    /\ prompts' = ps
    /\ UNCHANGED <<thrown, raised, writer_args>>

enter_step(step, req, research, content, log, ps) ==
    CASE step = "research" -> enter_research(req, log, ps)
      [] step = "draft" -> enter_draft(req, research, log, ps)
      [] OTHER -> enter_compile(req, research, content, log, ps)

(***************************************************************************)
(* The actions: create_content runs from each point where it waits for an  *)
(* agent's answer to the next.                                             *)
(***************************************************************************)
\* create_content(**req) is called and runs to its first wait
create_content(req) ==
    /\ pc = "idle"
    /\ request' = req
    /\ enter_step(first_step, req, research_result, content_result, calls, prompts)
    /\ task' = self_after_create_content(task, req)
    /\ UNCHANGED <<agents, research_result, content_draft, content_result, clock,
                   extraction,
                   threads, frames, capability, wrapper>>

\* the completion call of research_topic returns text: the text is parsed,
\* _conduct_research returns and create_content goes on
research_returns(text) ==
    /\ agents = "real"
    /\ pc = "research_wait"
    /\ research_result' = parse_research_result(text, request.topic)
    /\ enter_step(step_after("research"), request, research_result', content_result,
                  Append(calls, "research_topic:return"), prompts)
    /\ UNCHANGED <<extraction, http, agents, request, content_draft, content_result, clock,
                   threads, frames, capability, task, wrapper>>

\* the stub research agent returns a dict
stub_research_returns(result) ==
    /\ agents # "real"
    /\ pc = "research_wait"
    /\ research_result' = result
    /\ enter_step(step_after("research"), request, research_result', content_result,
                  Append(calls, "research_topic:return"), prompts)
    /\ UNCHANGED <<extraction, http, agents, request, content_draft, content_result, clock,
                   threads, frames, capability, task, wrapper>>

\* the research call fails: the completion call of research_topic raises
\* and execute_task passes the exception on, or the stub raises
research_fails(e) ==
    /\ pc = "research_wait"
    /\ raise_from_step(e, IF agents = "real" THEN execute_task_except(e) ELSE e,
                       Append(calls, "research_topic:raise"), prompts)
    /\ UNCHANGED <<extraction, http, agents, request, research_result, writer_args, content_draft,
                   content_result, clock,
                   threads, frames, capability, task, wrapper>>

\* the completion call of create_content_draft returns text: the text is
\* post-processed, _create_draft returns its dict and create_content goes on
draft_returns(text) ==
    /\ agents # "stub"
    /\ pc = "draft_wait"
    /\ content_draft' = Some(postprocess_output(text))
    /\ content_result' = draft_result(content_draft'.val, request.keywords)
    /\ enter_step(step_after("draft"), request, research_result, content_result',
                  Append(calls, "create_content_draft:return"), prompts)
    /\ UNCHANGED <<extraction, http, agents, request, research_result, clock,
                   threads, frames, capability, task, wrapper>>

\* the stub writer agent returns a draft
stub_draft_returns(text) ==
    /\ agents = "stub"
    /\ pc = "draft_wait"
    /\ content_draft' = Some(text)
    /\ content_result' = draft_result(content_draft'.val, request.keywords)
    /\ enter_step(step_after("draft"), request, research_result, content_result',
                  Append(calls, "create_content_draft:return"), prompts)
    /\ UNCHANGED <<extraction, http, agents, request, research_result, clock,
                   threads, frames, capability, task, wrapper>>

\* the draft call fails: the completion call of create_content_draft raises
\* and execute_task passes the exception on, or the stub raises
draft_fails(e) ==
    /\ pc = "draft_wait"
    /\ raise_from_step(e, IF agents # "stub" THEN execute_task_except(e) ELSE e,
                       Append(calls, "create_content_draft:raise"), prompts)
    /\ UNCHANGED <<extraction, http, agents, request, research_result, writer_args, content_draft,
                   content_result, clock,
                   threads, frames, capability, task, wrapper>>

\* the caller has its answer; the task serves the next call
next_call ==
    /\ \/ pc \in {"returned", "raised"}
       \/ http # None /\ http.rejected # None
    /\ pc' = "idle"
    /\ request' = None
    /\ research_result' = None
    /\ writer_args' = None
    /\ content_draft' = None
    /\ content_result' = None
    /\ final_result' = None
    /\ raised' = None
    /\ thrown' = None
    /\ calls' = <<>>
    /\ prompts' = <<>>
    /\ http' = None
    /\ UNCHANGED <<agents, clock, extraction,
                   threads, frames, capability, task, wrapper>>

\* time passes
tick ==
    /\ clock < MaxClock
    /\ clock' = clock + 1
    /\ UNCHANGED <<agents, pc, request, research_result, writer_args, content_draft,
                   content_result, final_result, raised, thrown, calls, prompts, http,
                   extraction,
                   threads, frames, capability, task, wrapper>>

\* the task with the repository's agents
Next ==
    \/ \E req \in Requests : create_content(req) /\ UNCHANGED http
    \/ \E text \in CompletionTexts : research_returns(text)
    \/ \E e \in UpstreamFailures : research_fails(e)
    \/ \E text \in CompletionTexts : draft_returns(text)
    \/ \E e \in UpstreamFailures : draft_fails(e)
    \/ next_call
    \/ tick

Spec == Init /\ [][Next]_vars

\* the task with the repository's agents and a completion client each of
\* whose calls comes to an end: it returns or it raises
SpecFair ==
    /\ Spec
    /\ WF_vars(\/ \E text \in CompletionTexts : research_returns(text)
               \/ \E e \in UpstreamFailures : research_fails(e))
    /\ WF_vars(\/ \E text \in CompletionTexts : draft_returns(text)
               \/ \E e \in UpstreamFailures : draft_fails(e))

\* the task with stub collaborators
NextStub ==
    \/ \E req \in Requests : create_content(req) /\ UNCHANGED http
    \/ \E result \in StubResearchResults : stub_research_returns(result)
    \/ \E e \in UpstreamFailures : research_fails(e)
    \/ \E text \in StubDrafts : stub_draft_returns(text)
    \/ \E e \in UpstreamFailures : draft_fails(e)
    \/ next_call
    \/ tick

SpecStub == InitStub /\ [][NextStub]_vars

\* the task with a stub ResearchAgent and the repository's WriterAgent
NextStubResearch ==
    \/ \E req \in Requests : create_content(req) /\ UNCHANGED http
    \/ \E result \in StubResearchResults : stub_research_returns(result)
    \/ \E e \in UpstreamFailures : research_fails(e)
    \/ \E text \in CompletionTexts : draft_returns(text)
    \/ \E e \in UpstreamFailures : draft_fails(e)
    \/ next_call
    \/ tick

SpecStubResearch == InitStubResearch /\ [][NextStubResearch]_vars

(***************************************************************************)
(* JSON: the response body as the framework writes it and as a client      *)
(* reads it.  A document is its syntax tree; strings and numbers are the   *)
(* characters that stand in the text.                                      *)
(***************************************************************************)
\* the two-character escapes: the character and the letter after the backslash
JsonEscapes == {<<"\"", "\"">>, <<"\\", "\\">>, <<"\n", "n">>, <<"\t", "t">>}

\* the characters of a str as they stand between the quotes
RECURSIVE json_escape(_)
json_escape(s) ==
    IF Len(s) = 0 THEN <<>>
    ELSE IF Len(s) = 1
    THEN IF \E e \in JsonEscapes : e[1] = s[1]
         THEN <<"\\", (CHOOSE e \in JsonEscapes : e[1] = s[1])[2]>>
         ELSE s
    ELSE json_escape(SubSeq(s, 1, Len(s) \div 2))
         \o json_escape(SubSeq(s, Len(s) \div 2 + 1, Len(s)))

\* the str that the characters between the quotes stand for
RECURSIVE json_unescape(_)
json_unescape(text) ==
    IF Len(text) <= 1 THEN text
    ELSE IF Len(text) = 2 /\ text[1] = "\\"
    THEN <<(CHOOSE e \in JsonEscapes : e[2] = text[2])[1]>>
    ELSE LET mid == Len(text) \div 2
             others == {i \in 1..mid : text[i] # "\\"}
             last_other == IF others = {} THEN 0
                           ELSE CHOOSE i \in others : \A j \in others : j <= i
             \* mid is the backslash that opens an escape
             opens == text[mid] = "\\" /\ (mid - last_other) % 2 = 1
             cut == IF opens THEN mid + 1 ELSE mid
         IN  json_unescape(SubSeq(text, 1, cut))
             \o json_unescape(SubSeq(text, cut + 1, Len(text)))

\* an int written without a sign
json_number_unsigned(n) ==
    LET RECURSIVE digits_of(_)
        digits_of(m) ==
            IF m < Len(DecimalDigits) THEN <<DecimalDigits[m + 1]>>
            ELSE Append(digits_of(m \div Len(DecimalDigits)),
                        DecimalDigits[(m % Len(DecimalDigits)) + 1])
    IN  [type |-> "number", text |-> digits_of(IF n < 0 THEN -n ELSE n)]

\* an int as a JSON number: a minus sign when negative, then its digits
json_number(n) ==
    LET RECURSIVE digits_of(_)
        digits_of(m) ==
            IF m < Len(DecimalDigits) THEN <<DecimalDigits[m + 1]>>
            ELSE Append(digits_of(m \div Len(DecimalDigits)),
                        DecimalDigits[(m % Len(DecimalDigits)) + 1])
    IN  [type |-> "number",
         text |-> IF n < 0 THEN <<"-">> \o digits_of(-n) ELSE digits_of(n)]

\* a str, a list of str, an Optional list of str and a bool as JSON values;
\* a str the model keeps whole (a content type, a time stamp) stands whole
\* between its quotes
json_string(s) == [type |-> "string", text |-> <<"\"">> \o json_escape(s) \o <<"\"">>]
json_whole_string(s) == [type |-> "string", whole |-> s]
json_array(items) ==
    [type |-> "array", items |-> [i \in 1..Len(items) |-> json_string(items[i])]]
json_optional_array(items) ==
    IF items = None THEN [type |-> "null"] ELSE json_array(items.val)
json_bool(b) == [type |-> IF b THEN "true" ELSE "false"]

\* the body of the response: the ContentResponse model as JSON
json_dumps(result) ==
    [topic |-> json_string(result.topic),
     content_type |-> json_whole_string(result.content_type),
     target_audience |-> json_whole_string(result.target_audience),
     word_count |-> json_number(result.word_count),
     tone |-> json_whole_string(result.tone),
     keywords |-> json_optional_array(result.keywords),
     research_data |->
         [topic |-> json_string(result.research_data.topic),
          research_findings |-> json_string(result.research_data.research_findings),
          key_facts |-> json_array(result.research_data.key_facts),
          sources |-> json_array(result.research_data.sources),
          insights |-> json_array(result.research_data.insights),
          recommendations |-> json_array(result.research_data.recommendations)],
     content |->
         [draft_content |-> json_string(result.content.draft_content),
          research_incorporated |-> json_bool(result.content.research_incorporated),
          word_count_actual |-> json_number(result.content.word_count_actual),
          keywords_used |-> json_array(result.content.keywords_used)],
     creation_timestamp |-> json_whole_string(result.creation_timestamp),
     status |-> json_whole_string(result.status)]

\* the value a JSON value stands for
json_value(j) ==
    CASE j.type = "null" -> None
      [] j.type = "true" -> TRUE
      [] j.type = "false" -> FALSE
      [] j.type = "number" ->
             IF j.text[1] = "-" THEN 0 - int(Tail(j.text)) ELSE int(j.text)
      [] j.type = "string" ->
             IF "whole" \in DOMAIN j THEN j.whole
             ELSE json_unescape(SubSeq(j.text, 2, Len(j.text) - 1))
      [] j.type = "array" ->
             [i \in 1..Len(j.items) |->
                 json_unescape(SubSeq(j.items[i].text, 2, Len(j.items[i].text) - 1))]

\* the body read back by a client
json_loads(body) ==
    [topic |-> json_value(body.topic),
     content_type |-> json_value(body.content_type),
     target_audience |-> json_value(body.target_audience),
     word_count |-> json_value(body.word_count),
     tone |-> json_value(body.tone),
     keywords |-> IF body.keywords.type = "null" THEN None
                  ELSE Some(json_value(body.keywords)),
     research_data |-> [k \in DOMAIN body.research_data |-> json_value(body.research_data[k])],
     content |-> [k \in DOMAIN body.content |-> json_value(body.content[k])],
     creation_timestamp |-> json_value(body.creation_timestamp),
     status |-> json_value(body.status)]

(***************************************************************************)
(* The transport endpoint: POST /content/create.                           *)
(***************************************************************************)
\* settings.secret_key, as the environment configures it
SecretKey == <<"s", "3", "c", "r", "3", "t">>

\* the X-API-Key header of a request: absent, the secret, or another value
ApiKeys == {None, Some(SecretKey), Some(<<"s", "3">>), Some(<<>>)}

\* a dependency that lets a request without the header through
get_api_key_absent_passes(api_key) == api_key = None \/ api_key = Some(SecretKey)

\* get_api_key: does the dependency return (TRUE) or raise 401 (FALSE)?  With
\* auto_error=False an absent header arrives as None, which differs from any
\* secret
get_api_key(api_key) == api_key = Some(SecretKey)

Unauthorized == [status_code |-> 401, detail |-> "Invalid API Key"]
UnprocessableEntity == [status_code |-> 422, detail |-> "field required"]
BadRequest == [status_code |-> 400, detail |-> "Invalid input data"]
InternalServerError == [status_code |-> 500, detail |-> "Internal Server Error"]

\* the defaults of the ContentRequest model
DefaultWordCount == 1000

\* the JSON bodies a client posts: an object with some of the fields
Bodies ==
    {[topic |-> t] : t \in Topics}
    \cup {[topic |-> t, tone |-> "sarcastic", word_count |-> 3,
           keywords |-> Some(<<KeywordEV, KeywordBattery>>)] : t \in Topics}
    \cup {[topic |-> TopicEV, word_count |-> -5,
            keywords |-> Some(<<KeywordBattery, KeywordEV>>)]}
    \cup {[content_type |-> "blog"], [tone |-> "sarcastic", word_count |-> 3]}

\* ContentRequest: topic is the one field without a default
ContentRequest_validates(body) == "topic" \in DOMAIN body

\* a field of the parsed model: the posted value, or the default
field_or_default(body, name, default) ==
    IF name \in DOMAIN body THEN body[name] ELSE default

\* request.dict() of the parsed ContentRequest
request_dict(body) ==
    [topic |-> body.topic,
     content_type |-> field_or_default(body, "content_type", "article"),
     target_audience |-> field_or_default(body, "target_audience", "general"),
     word_count |-> field_or_default(body, "word_count", DefaultWordCount),
     tone |-> field_or_default(body, "tone", "professional"),
     keywords |-> field_or_default(body, "keywords", None),
     research_depth |-> field_or_default(body, "research_depth", "comprehensive")]

\* ContentCreationTask.validate_input: every required field is a key of the
\* dict and its value is truthy
task_validate_input(input_data) ==
    \A required \in {"topic"} :
        required \in DOMAIN input_data /\ truthy_str(input_data[required])

\* the request stopped before create_content was called
rejected_request(api_key, body, trace, error) ==
    /\ http' = [api_key |-> api_key, body |-> body, trace |-> trace, rejected |-> error]
    /\ UNCHANGED <<agents, pc, request, research_result, writer_args, content_draft,
                   content_result, final_result, raised, thrown, calls, prompts, clock,
                   extraction,
                   threads, frames, capability, task, wrapper>>

\* a POST /content/create arrives: the dependency checks the header, the
\* body is parsed into a ContentRequest, the endpoint validates the dict and
\* calls create_content, which runs to its first wait
post_content_create(api_key, body) ==
    /\ pc = "idle"
    /\ http = None
    /\ IF ~get_api_key(api_key)
       THEN rejected_request(api_key, body, <<"get_api_key">>, Unauthorized)
       ELSE IF ~ContentRequest_validates(body)
       THEN rejected_request(api_key, body, <<"get_api_key", "ContentRequest">>,
                             UnprocessableEntity)
       ELSE IF ~task_validate_input(request_dict(body))
       THEN rejected_request(api_key, body,
                             <<"get_api_key", "ContentRequest", "validate_input">>,
                             BadRequest)
       ELSE /\ http' = [api_key |-> api_key, body |-> body,
                        trace |-> <<"get_api_key", "ContentRequest", "validate_input",
                                    "create_content">>,
                        rejected |-> None]
            /\ create_content(request_dict(body))

\* ContentResponse: the response model keeps the fields it declares
ContentResponse(result) ==
    [topic |-> result.topic,
     content_type |-> result.content_type,
     target_audience |-> result.target_audience,
     word_count |-> result.word_count,
     tone |-> result.tone,
     keywords |-> result.keywords,
     research_data |-> result.research_data,
     content |-> result.content,
     creation_timestamp |-> result.creation_timestamp,
     status |-> result.status]

\* the answer to the request being served, None while there is none yet: an
\* HTTPException gives its status, a returned dict is sent through the
\* response model, an exception that leaves the endpoint is a server error
response ==
    IF http = None THEN None
    ELSE IF http.rejected # None THEN http.rejected
    ELSE IF pc = "returned"
    THEN [status_code |-> 200, body |-> json_dumps(ContentResponse(final_result))]
    ELSE IF pc = "raised" THEN InternalServerError
    ELSE None

\* the service as api/content.py wires it
NextApi ==
    \/ \E api_key \in ApiKeys, body \in Bodies : post_content_create(api_key, body)
    \/ \E text \in CompletionTexts : research_returns(text)
    \/ \E e \in UpstreamFailures : research_fails(e)
    \/ \E text \in CompletionTexts : draft_returns(text)
    \/ \E e \in UpstreamFailures : draft_fails(e)
    \/ next_call
    \/ tick

SpecApi == Init /\ [][NextApi]_vars

(***************************************************************************)
(* The score extractors of the Editor, Research and SEO agents.            *)
(***************************************************************************)
\* what the class [:\s] of the three patterns matches
SeparatorChars == {":"} \cup Whitespace
\* a search for the label, a colon, whitespace and digits
search_label_colon_digits(label, text) ==
    LET lowered == lower(text)
        n == Len(lowered)
        after(p) == p + Len(label)
        first_other(p) ==
            LET others == {q \in (after(p) + 1)..n : lowered[q] \notin Whitespace}
            IN  IF others = {} THEN n + 1 ELSE kth(others, 1)
        matches == {p \in 1..n :
                       /\ after(p) <= n
                       /\ SubSeq(lowered, p, after(p) - 1) = label
                       /\ lowered[after(p)] = ":"
                       /\ first_other(p) <= n
                       /\ lowered[first_other(p)] \in DigitChars}
    IN  IF matches = {} THEN None
        ELSE LET start == first_other(kth(matches, 1))
                 stops == {q \in start..n : lowered[q] \notin DigitChars}
                 stop == IF stops = {} THEN n + 1 ELSE kth(stops, 1)
             IN  Some(int(SubSeq(lowered, start, stop - 1)))

\* re.search(label + r'[:\s]*(\d+)', text.lower()) and int(group(1)): the
\* leftmost place of the lower-cased text where the label, a run of colons
\* and whitespace and a digit follow one another; the group is the whole run
\* of digits; None when there is no such place
search_label_digits(label, text) ==
    LET lowered == lower(text)
        n == Len(lowered)
        after(p) == p + Len(label)
        first_other(p) ==
            LET others == {q \in after(p)..n : lowered[q] \notin SeparatorChars}
            IN  IF others = {} THEN n + 1 ELSE kth(others, 1)
        matches == {p \in 1..n :
                       /\ after(p) - 1 <= n
                       /\ SubSeq(lowered, p, after(p) - 1) = label
                       /\ first_other(p) <= n
                       /\ lowered[first_other(p)] \in DigitChars}
    IN  IF matches = {} THEN None
        ELSE LET start == first_other(kth(matches, 1))
                 stops == {q \in start..n : lowered[q] \notin DigitChars}
                 stop == IF stops = {} THEN n + 1 ELSE kth(stops, 1)
             IN  Some(int(SubSeq(lowered, start, stop - 1)))

ScoreLabel == <<"s", "c", "o", "r", "e">>
AccuracyLabel == <<"a", "c", "c", "u", "r", "a", "c", "y">>
SeoScoreLabel == <<"s", "e", "o", " ", "s", "c", "o", "r", "e">>

\* EditorAgent._extract_score
extract_score(text) == search_label_digits(ScoreLabel, text)
\* ResearchAgent._extract_accuracy_score
extract_accuracy_score(text) == search_label_digits(AccuracyLabel, text)
\* SEOAgent._extract_seo_score
extract_seo_score(text) == search_label_digits(SeoScoreLabel, text)

\* the pieces the sample review, fact-check and SEO texts are made of
ScoreFragments ==
    {ScoreLabel, <<"S", "E", "O", " ">>, <<"A", "c", "c", "u", "r", "a", "c", "y">>,
     <<":">>, <<":", " ">>, <<" ">>, <<"7">>, <<"4", "0">>,
     <<"s", "c", "o", "r", "e", " ", "7">>}

\* longest sample text, in pieces
MaxFragments == 3

RECURSIVE concat(_)
concat(parts) == IF parts = <<>> THEN <<>> ELSE Head(parts) \o concat(Tail(parts))

\* the raw texts handed to the extractors
ScoreTexts ==
    {concat(parts) : parts \in UNION {[1..n -> ScoreFragments] : n \in 0..MaxFragments}}

\* everything that belongs to a create_content call or a request
call_vars ==
    <<agents, pc, request, research_result, writer_args, content_draft, content_result,
      final_result, raised, thrown, calls, prompts, clock, http, threads, frames, capability, task, wrapper>>

\* an extractor is called on a raw text and returns
extracted(method, label, text, result) ==
    /\ extraction = None
    /\ extraction' = [method |-> method, label |-> label, text |-> text, result |-> result]
    /\ UNCHANGED call_vars

editor_extract_score(text) ==
    extracted("EditorAgent._extract_score", ScoreLabel, text, extract_score(text))

research_extract_accuracy_score(text) ==
    extracted("ResearchAgent._extract_accuracy_score", AccuracyLabel, text,
              extract_accuracy_score(text))

seo_extract_seo_score(text) ==
    extracted("SEOAgent._extract_seo_score", SeoScoreLabel, text, extract_seo_score(text))

\* the caller has the score; the extractors keep nothing between calls
next_extraction ==
    /\ extraction # None
    /\ extraction' = None
    /\ UNCHANGED call_vars

NextScores ==
    \/ \E text \in ScoreTexts : editor_extract_score(text)
    \/ \E text \in ScoreTexts : research_extract_accuracy_score(text)
    \/ \E text \in ScoreTexts : seo_extract_seo_score(text)
    \/ next_extraction

SpecScores == Init /\ [][NextScores]_vars

(***************************************************************************)
(* Concurrent callers: the endpoint is a plain def, so the framework runs  *)
(* each request in a worker thread and several create_content calls run on *)
(* the one module-level task at the same time.  A call is interleaved with *)
(* the others at every point between two of its statements that the        *)
(* others could observe.                                                   *)
(***************************************************************************)
\* locals kept in one place for all the calls, as attributes of the task
frame_on_task(t) == "caller 1"

\* where the locals of the call of caller t live: in the frame of that call
frame(t) == t

\* the requests and completions of the concurrent callers
TopicBattery == KeywordBattery
ConcurrentRequests ==
    {[topic |-> TopicEV, content_type |-> "article", target_audience |-> "general",
      word_count |-> 500, tone |-> "professional",
      keywords |-> Some(<<KeywordEV, KeywordBattery>>), research_depth |-> "comprehensive"],
     [topic |-> TopicBattery, content_type |-> "blog", target_audience |-> "general",
      word_count |-> 3, tone |-> "sarcastic",
      keywords |-> None, research_depth |-> "comprehensive"],
     [topic |-> TopicBlank, content_type |-> "blog", target_audience |-> "general",
      word_count |-> 3, tone |-> "sarcastic",
      keywords |-> None, research_depth |-> "comprehensive"]}
ConcurrentTexts == {<<>>, TextMixed, TextPlain}

\* everything that belongs to the single-caller view or to an extractor
single_vars ==
    <<agents, pc, request, research_result, writer_args, content_draft, content_result,
      final_result, raised, thrown, calls, prompts, clock, http, extraction,
      capability, task, wrapper>>

\* caller t calls create_content(**req): _conduct_research calls
\* research_topic, which validates the topic and hands its task description
\* to the completion client
thread_create_content(t, req) ==
    /\ threads[t].pc = "idle"
    /\ threads' = [threads EXCEPT ![t] =
           IF ~research_validate_input(req.topic)
           THEN [@ EXCEPT !.pc = "raised", !.request = req,
                          !.raised = create_content_except(ValueError)]
           ELSE [@ EXCEPT !.pc = "research_wait", !.request = req,
                          !.prompts = @ \o execute_task(research_task_description(
                                               req.topic, req.research_depth,
                                               req.content_type, req.target_audience))]]
    /\ UNCHANGED frames
    /\ UNCHANGED single_vars

\* the completion call of caller t's research_topic returns: the text is
\* parsed and assigned to research_result
thread_research_returns(t, text) ==
    /\ threads[t].pc = "research_wait"
    /\ threads' = [threads EXCEPT ![t].pc = "research_done", ![t].answers = Append(@, text)]
    /\ frames' = [frames EXCEPT ![frame(t)].research_result =
                      parse_research_result(text, threads[t].request.topic)]
    /\ UNCHANGED single_vars

\* caller t goes on to _create_draft: the requirements block is built from
\* research_result, create_content_draft validates the topic and hands its
\* task description to the completion client
thread_create_draft(t) ==
    /\ threads[t].pc = "research_done"
    /\ LET req == threads[t].request
           args == [topic |-> req.topic,
                    content_type |-> req.content_type,
                    target_audience |-> req.target_audience,
                    word_count |-> req.word_count,
                    tone |-> req.tone,
                    keywords |-> req.keywords,
                    additional_requirements |->
                        prepare_research_requirements(frames[frame(t)].research_result)]
       IN  /\ frames' = [frames EXCEPT ![frame(t)].writer_args = args]
           /\ threads' = [threads EXCEPT ![t] =
                  IF ~writer_validate_input(args.topic)
                  THEN [@ EXCEPT !.pc = "raised",
                                 !.raised = create_content_except(ValueError)]
                  ELSE [@ EXCEPT !.pc = "draft_wait",
                                 !.prompts = @ \o execute_task(writer_task_description(
                                                      args.topic, args.content_type,
                                                      args.target_audience, args.word_count,
                                                      args.tone, args.keywords,
                                                      args.additional_requirements))]]
    /\ UNCHANGED single_vars

\* the completion call of caller t's create_content_draft returns: the text
\* is post-processed and the dict of _create_draft assigned to content_result
thread_draft_returns(t, text) ==
    /\ threads[t].pc = "draft_wait"
    /\ threads' = [threads EXCEPT ![t].pc = "draft_done", ![t].answers = Append(@, text)]
    /\ frames' = [frames EXCEPT
                      ![frame(t)].content_draft = Some(postprocess_output(text)),
                      ![frame(t)].content_result =
                          draft_result(postprocess_output(text), threads[t].request.keywords)]
    /\ UNCHANGED single_vars

\* caller t compiles final_result from its arguments and locals and returns it
thread_returns(t) ==
    /\ threads[t].pc = "draft_done"
    /\ threads' = [threads EXCEPT
                       ![t].pc = "returned",
                       ![t].result = compile_final_result(
                                         threads[t].request, frames[frame(t)].research_result,
                                         frames[frame(t)].content_result, isoformat(clock))]
    /\ UNCHANGED frames
    /\ UNCHANGED single_vars

\* a completion call of caller t raises: execute_task and create_content
\* pass the exception on
thread_completion_fails(t, e) ==
    /\ threads[t].pc \in {"research_wait", "draft_wait"}
    /\ threads' = [threads EXCEPT
                       ![t].pc = "raised",
                       ![t].raised = create_content_except(execute_task_except(e))]
    /\ UNCHANGED frames
    /\ UNCHANGED single_vars

\* caller t has its answer; its frame is gone
thread_next_call(t) ==
    /\ threads[t].pc \in {"returned", "raised"}
    /\ threads' = [threads EXCEPT ![t] = IdleThread]
    /\ frames' = [frames EXCEPT ![frame(t)] = EmptyFrame]
    /\ UNCHANGED single_vars

NextConcurrent ==
    \/ \E t \in Threads, req \in ConcurrentRequests : thread_create_content(t, req)
    \/ \E t \in Threads, text \in ConcurrentTexts : thread_research_returns(t, text)
    \/ \E t \in Threads : thread_create_draft(t)
    \/ \E t \in Threads, text \in ConcurrentTexts : thread_draft_returns(t, text)
    \/ \E t \in Threads : thread_returns(t)
    \/ \E t \in Threads, e \in UpstreamFailures : thread_completion_fails(t, e)
    \/ \E t \in Threads : thread_next_call(t)

SpecConcurrent == Init /\ [][NextConcurrent]_vars

(***************************************************************************)
(* The capability methods of the five agents, called on their own.         *)
(***************************************************************************)
\* validate_input of an agent on a str: not empty once stripped (the five
\* agents define it alike)
validate_input(input_data) == Len(strip(input_data)) > 0

\* every capability method with its primary text parameter, and whether its
\* body starts with `if not self.validate_input(...): raise ValueError`
CapabilityMethods ==
    {[agent |-> "ResearchAgent", method |-> "research_topic", primary |-> "topic", validates |-> TRUE],
     [agent |-> "ResearchAgent", method |-> "fact_check_content", primary |-> "content", validates |-> FALSE],
     [agent |-> "ResearchAgent", method |-> "gather_statistics", primary |-> "topic", validates |-> FALSE],
     [agent |-> "ResearchAgent", method |-> "find_expert_quotes", primary |-> "topic", validates |-> FALSE],
     [agent |-> "ResearchAgent", method |-> "analyze_trends", primary |-> "topic", validates |-> FALSE],
     [agent |-> "WriterAgent", method |-> "create_content_draft", primary |-> "topic", validates |-> TRUE],
     [agent |-> "WriterAgent", method |-> "expand_section", primary |-> "section_content", validates |-> FALSE],
     [agent |-> "WriterAgent", method |-> "rewrite_content", primary |-> "original_content", validates |-> FALSE],
     [agent |-> "EditorAgent", method |-> "review_content", primary |-> "content", validates |-> TRUE],
     [agent |-> "EditorAgent", method |-> "edit_content", primary |-> "content", validates |-> FALSE],
     [agent |-> "EditorAgent", method |-> "improve_content", primary |-> "content", validates |-> FALSE],
     [agent |-> "EditorAgent", method |-> "check_grammar_and_style", primary |-> "content", validates |-> FALSE],
     [agent |-> "SEOAgent", method |-> "optimize_content", primary |-> "content", validates |-> TRUE],
     [agent |-> "SEOAgent", method |-> "generate_meta_tags", primary |-> "content", validates |-> FALSE],
     [agent |-> "SEOAgent", method |-> "suggest_keywords", primary |-> "topic", validates |-> FALSE],
     [agent |-> "SEOAgent", method |-> "analyze_content_seo", primary |-> "content", validates |-> FALSE],
     [agent |-> "CreativeAgent", method |-> "generate_content_ideas", primary |-> "topic", validates |-> TRUE],
     [agent |-> "CreativeAgent", method |-> "brainstorm_headlines", primary |-> "topic", validates |-> FALSE],
     [agent |-> "CreativeAgent", method |-> "create_content_hooks", primary |-> "topic", validates |-> FALSE],
     [agent |-> "CreativeAgent", method |-> "generate_viral_concepts", primary |-> "topic", validates |-> FALSE],
     [agent |-> "CreativeAgent", method |-> "create_content_series", primary |-> "topic", validates |-> FALSE]}

\* the primary text inputs the methods are called with
PrimaryInputs == {TopicEV, TopicEmpty, TopicBlank, DraftEV, TextPlain}

\* everything that does not belong to the capability call
other_vars ==
    <<agents, pc, request, research_result, writer_args, content_draft, content_result,
      final_result, raised, thrown, calls, prompts, clock, http, extraction, threads,
      frames>>

\* a capability method is called with a primary text: where the body starts
\* with the validation an invalid text raises ValueError; otherwise the task
\* description is built around the text and handed to the completion client
capability_called(m, text) ==
    /\ capability = None
    /\ capability' =
           IF m.validates /\ ~validate_input(text)
           THEN [method |-> m, input |-> text, outcome |-> "raised", sent |-> <<>>]
           ELSE [method |-> m, input |-> text, outcome |-> "completion called",
                 sent |-> execute_task([agent |-> m.agent, method |-> m.method, text |-> text])]
    /\ UNCHANGED <<other_vars, task, wrapper>>

\* the call is over: the exception has reached the caller, or the completion
\* call has returned or raised and the method with it
capability_done ==
    /\ capability # None
    /\ capability' = None
    /\ UNCHANGED <<other_vars, task, wrapper>>

NextCapabilities ==
    \/ \E m \in CapabilityMethods, text \in PrimaryInputs : capability_called(m, text)
    \/ capability_done

SpecCapabilities == Init /\ [][NextCapabilities]_vars

(***************************************************************************)
(* The methods of BaseTask that update a task, and the single-step methods *)
(* of the four tasks that wrap one capability of one agent.                *)
(***************************************************************************)
\* the texts the update methods are called with
NewTexts == {"", "Summarise the topic", "A bullet list"}

\* an update_description that leaves the crewai Task as it was
update_description_on_self_only(new_description) ==
    /\ task' = [task EXCEPT !.description = new_description]
    /\ UNCHANGED <<other_vars, capability, wrapper>>

\* BaseTask.update_description
update_description(new_description) ==
    /\ task' = [task EXCEPT !.description = new_description,
                            !.task.description = new_description]
    /\ UNCHANGED <<other_vars, capability, wrapper>>

\* BaseTask.update_expected_output
update_expected_output(new_expected_output) ==
    /\ task' = [task EXCEPT !.expected_output = new_expected_output,
                            !.task.expected_output = new_expected_output]
    /\ UNCHANGED <<other_vars, capability, wrapper>>

\* the single-step methods: the task and its agent, the method (the agent's
\* method has the same name), the keys of the dict it returns (input_key ""
\* where the dict does not repeat the text argument) and its status label
WrapperMethods ==
    {[task |-> "Content Review", agent |-> "EditorAgent", method |-> "review_content",
      data_key |-> "review_data", input_key |-> "content_original",
      timestamp_key |-> "review_timestamp", status |-> "reviewed"],
     [task |-> "Content Review", agent |-> "EditorAgent", method |-> "improve_content",
      data_key |-> "improved_content", input_key |-> "original_content",
      timestamp_key |-> "improvement_timestamp", status |-> "improved"],
     [task |-> "Research", agent |-> "ResearchAgent", method |-> "research_topic",
      data_key |-> "research_data", input_key |-> "",
      timestamp_key |-> "research_timestamp", status |-> "researched"],
     [task |-> "Research", agent |-> "ResearchAgent", method |-> "fact_check_content",
      data_key |-> "fact_check_data", input_key |-> "content",
      timestamp_key |-> "fact_check_timestamp", status |-> "fact_checked"],
     [task |-> "SEO Optimization", agent |-> "SEOAgent", method |-> "optimize_content",
      data_key |-> "seo_data", input_key |-> "original_content",
      timestamp_key |-> "optimization_timestamp", status |-> "optimized"],
     [task |-> "SEO Optimization", agent |-> "SEOAgent", method |-> "generate_meta_tags",
      data_key |-> "meta_tags", input_key |-> "content",
      timestamp_key |-> "generation_timestamp", status |-> "meta_tags_generated"],
     [task |-> "Creative Ideation", agent |-> "CreativeAgent",
      method |-> "generate_content_ideas",
      data_key |-> "ideas_data", input_key |-> "",
      timestamp_key |-> "ideation_timestamp", status |-> "ideas_generated"],
     [task |-> "Creative Ideation", agent |-> "CreativeAgent",
      method |-> "brainstorm_headlines",
      data_key |-> "headlines_data", input_key |-> "",
      timestamp_key |-> "headlines_timestamp", status |-> "headlines_generated"]}

\* what the agent's method gives back to the wrapper
AgentReturns == StubDrafts

\* a dict that is labelled completed, as the dict of BaseTask._process_result
wrapper_record_completed(m, text, value, timestamp) ==
    LET fixed == (m.data_key :> value) @@ (m.timestamp_key :> timestamp) @@
                 ("status" :> "completed")
    IN  IF m.input_key = "" THEN fixed ELSE fixed @@ (m.input_key :> text)

\* the dict a single-step method returns: what the agent returned, the text
\* argument where the method repeats it, the timestamp and the status label
wrapper_record(m, text, value, timestamp) ==
    LET fixed == (m.data_key :> value) @@ (m.timestamp_key :> timestamp) @@
                 ("status" :> m.status)
    IN  IF m.input_key = "" THEN fixed ELSE fixed @@ (m.input_key :> text)

\* a single-step method of the task is called with its text argument and
\* calls the agent's method; where that method starts with the validation,
\* an invalid text makes it raise ValueError at once, and the wrapper, which
\* has no try, lets it through
wrapper_called(m, text) ==
    /\ wrapper = None
    /\ task.name = m.task
    /\ LET agent_method == CHOOSE c \in CapabilityMethods :
                               c.agent = m.agent /\ c.method = m.method
           rejects == agent_method.validates /\ ~validate_input(text)
       IN  wrapper' = [method |-> m,
                       input |-> text,
                       pc |-> IF rejects THEN "raised" ELSE "agent_wait",
                       agent_calls |-> <<m.method>>,
                       result |-> None,
                       raised |-> IF ~rejects THEN None
                                  ELSE [type |-> "ValueError",
                                        message |-> IF agent_method.primary = "topic"
                                                    THEN "Topic cannot be empty"
                                                    ELSE "Content cannot be empty"]]
    /\ UNCHANGED <<other_vars, capability, task>>

\* the agent's method returns: the wrapper reads the clock and returns its dict
wrapper_agent_returns(value) ==
    /\ wrapper # None
    /\ wrapper.pc = "agent_wait"
    /\ wrapper' = [wrapper EXCEPT
                       !.pc = "returned",
                       !.result = wrapper_record(wrapper.method, wrapper.input, value,
                                                 isoformat(clock))]
    /\ UNCHANGED <<other_vars, capability, task>>

\* the agent's method raises: the exception leaves the wrapper as it is
wrapper_agent_fails(e) ==
    /\ wrapper # None
    /\ wrapper.pc = "agent_wait"
    /\ wrapper' = [wrapper EXCEPT !.pc = "raised", !.raised = e]
    /\ UNCHANGED <<other_vars, capability, task>>

\* the call is over
wrapper_done ==
    /\ wrapper # None
    /\ wrapper.pc \in {"returned", "raised"}
    /\ wrapper' = None
    /\ UNCHANGED <<other_vars, capability, task>>

\* a task of any of the five classes, as its constructor leaves it
InitTask ==
    /\ agents = "real"
    /\ task \in SingleStepTasks \cup {ContentCreationTask}
    /\ InitCall

NextTask ==
    \/ \E new_description \in NewTexts : update_description(new_description)
    \/ \E new_expected_output \in NewTexts : update_expected_output(new_expected_output)
    \/ \E m \in WrapperMethods, text \in PrimaryInputs : wrapper_called(m, text)
    \/ \E value \in AgentReturns : wrapper_agent_returns(value)
    \/ \E e \in UpstreamFailures : wrapper_agent_fails(e)
    \/ wrapper_done
    \/ tick

SpecTask == InitTask /\ [][NextTask]_vars

(***************************************************************************)
(* Properties of create_content.                                           *)
(***************************************************************************)
\* the positions of the call log that hold the event
positions_of(event) == {i \in 1..Len(calls) : calls[i] = event}
happened(event) == positions_of(event) # {}

\* a str is empty after trimming: every character of it is whitespace
blank(s) == \A i \in 1..Len(s) : s[i] \in Whitespace

\* C1: with a non-empty topic the research call is the first thing
\* create_content does, and every call of the writer comes after a research
\* call of the same invocation that has returned; the writer is never called
\* before or without one.
C1_ResearchCompletesBeforeDraft ==
    /\ (pc # "idle" /\ ~blank(request.topic)) =>
           (calls # <<>> /\ calls[1] = "research_topic")
    /\ \A d \in positions_of("create_content_draft") :
           \E c \in positions_of("research_topic") :
               \E r \in positions_of("research_topic:return") :
                   c < r /\ r < d /\ research_result # None

C1_Witness ==
    /\ pc = "draft_wait"
    /\ ~blank(request.topic)
    /\ calls = <<"research_topic", "research_topic:return", "create_content_draft">>

\* C2: when the research step fails, the writer is never called, no record
\* is returned, and the exception that leaves create_content is the very
\* exception the research step raised.
C2_ResearchFailurePropagates ==
    happened("research_topic:raise") =>
        /\ pc = "raised"
        /\ ~happened("create_content_draft")
        /\ writer_args = None
        /\ final_result = None
        /\ thrown \in UpstreamFailures \cup {ValueError}
        /\ raised = thrown

C2_Witness ==
    /\ happened("research_topic:raise")
    /\ thrown \in UpstreamFailures
    /\ Len(prompts) = 1

\* C3: a record is returned only when the research step and the draft step
\* have both returned, and it carries both their results; when the draft
\* step fails after a successful research step the call raises and returns
\* nothing, neither a record nor the research data.
C3_NoPartialSuccess ==
    /\ (pc = "returned" \/ final_result # None) =>
           /\ pc = "returned"
           /\ raised = None
           /\ happened("research_topic:return")
           /\ happened("create_content_draft:return")
           /\ research_result # None
           /\ content_result # None
           /\ final_result # None
           /\ final_result.status = "completed"
    /\ happened("create_content_draft:raise") =>
           /\ pc = "raised"
           /\ raised # None
           /\ final_result = None

C3_Witness ==
    /\ happened("research_topic:return")
    /\ happened("create_content_draft:raise")
    /\ research_result # None
    /\ research_result.key_facts # <<>>

\* the number of whitespace-separated tokens of a text, counted at the
\* characters that end a token
token_count(text) ==
    Cardinality({i \in 1..Len(text) :
                    /\ text[i] \notin Whitespace
                    /\ (i = Len(text) \/ text[i + 1] \in Whitespace)})

\* C4: in every returned record content.word_count_actual is the number of
\* whitespace-separated tokens of content.draft_content of that record,
\* whatever word_count was requested.
C4_WordCountActualIsTokenCount ==
    final_result # None =>
        final_result.content.word_count_actual
            = token_count(final_result.content.draft_content)

C4_Witness ==
    /\ final_result # None
    /\ final_result.word_count = 500
    /\ final_result.content.word_count_actual = 3
    /\ \E i \in 1..Len(final_result.content.draft_content) :
           final_result.content.draft_content[i] = "\n"

\* a labelled line of the requirements block, read back: the label is taken
\* off and the rest cut at every ", "
has_label(line, label) ==
    Len(line) >= Len(label) /\ SubSeq(line, 1, Len(label)) = label

items_of(line, label) ==
    LET rest == SubSeq(line, Len(label) + 1, Len(line))
        commas == {i \in 1..(Len(rest) - 1) : rest[i] = "," /\ rest[i + 1] = " "}
        n == Cardinality(commas)
    IN  IF rest = <<>> THEN <<>>
        ELSE [k \in 1..(n + 1) |->
                 SubSeq(rest, IF k = 1 THEN 1 ELSE kth(commas, k - 1) + 2,
                              IF k = n + 1 THEN Len(rest) ELSE kth(commas, k) - 1)]

\* the items are the first `limit` entries of the list, in order, and none
\* of the entries after them
first_entries(items, list, limit) ==
    /\ Len(items) <= limit
    /\ Len(items) = Min(limit, Len(list))
    /\ \A i \in 1..Len(items) : items[i] = list[i]
    /\ \A j \in (limit + 1)..Len(list) :
           (\A i \in 1..limit : list[i] # list[j]) =>
               (\A i \in 1..Len(items) : items[i] # list[j])

\* C5: the requirements block given to the writer holds, comma-joined and in
\* the original order, the first 5 key_facts, the first 3 sources and the
\* first 3 insights of the research result and no entry after those.
C5_RequirementsBlockSlices ==
    (writer_args # None /\ research_result # None) =>
        LET lines == split_lines(writer_args.additional_requirements)
        IN  /\ Len(lines) = 3
            /\ has_label(lines[1], KeyFactsLabel)
            /\ first_entries(items_of(lines[1], KeyFactsLabel),
                             research_result.key_facts, 5)
            /\ has_label(lines[2], SourcesLabel)
            /\ first_entries(items_of(lines[2], SourcesLabel),
                             research_result.sources, 3)
            /\ has_label(lines[3], InsightsLabel)
            /\ first_entries(items_of(lines[3], InsightsLabel),
                             research_result.insights, 3)

C5_Witness ==
    /\ writer_args # None
    /\ research_result # None
    /\ Len(research_result.key_facts) > 5
    /\ Len(research_result.sources) > 3
    /\ Len(research_result.insights) > 3
    /\ pc = "draft_wait"

\* C6: a call with a topic that is empty after trimming raises the
\* invalid-input error and calls neither the research agent nor the writer
\* agent.
C6_EmptyTopicCallsNoAgent ==
    (pc # "idle" /\ blank(request.topic)) =>
        /\ pc = "raised"
        /\ raised = ValueError
        /\ ~happened("research_topic")
        /\ ~happened("create_content_draft")

\* C7: a call with a topic that is empty after trimming fails before any
\* call of the completion client: it has raised the invalid-input error and
\* has sent no task description.
C7_EmptyTopicNoCompletionCall ==
    (pc # "idle" /\ blank(request.topic)) =>
        /\ pc = "raised"
        /\ raised = ValueError
        /\ final_result = None
        /\ Len(prompts) = 0

C7_Witness ==
    /\ pc = "raised"
    /\ request.topic = TopicBlank
    /\ Len(request.topic) > 0

\* C8: when the research result has empty key_facts, sources and insights,
\* the requirements block given to the writer is the empty string, the
\* draft step still runs and the call returns a completed record.
C8_EmptyResearchEmptyBlock ==
    /\ (/\ writer_args # None
        /\ research_result # None
        /\ research_result.key_facts = <<>>
        /\ research_result.sources = <<>>
        /\ research_result.insights = <<>>) =>
           /\ writer_args.additional_requirements = <<>>
           /\ happened("create_content_draft")
    /\ (/\ pc = "returned"
        /\ research_result.key_facts = <<>>
        /\ research_result.sources = <<>>
        /\ research_result.insights = <<>>) =>
           final_result.status = "completed"

\* the request of the end-to-end scenario
scenario_request ==
    /\ request # None
    /\ request.topic = TopicEV
    /\ request.content_type = "article"
    /\ request.word_count = 500
    /\ request.keywords = Some(<<KeywordEV, KeywordBattery>>)

\* C9: for the request {electric vehicles, article, 500, [EV, battery]},
\* with a research stub that returns key_facts [Fact A, Fact B], sources
\* [Src1], insights [] and a writer stub that returns "EVs are transforming
\* transport with battery tech.", the call returns a record with
\* word_count_actual 7, keywords_used [EV, battery], research key_facts
\* [Fact A, Fact B] and status completed.
C9_EndToEndScenario ==
    (/\ scenario_request
     /\ research_result = ResearchEV
     /\ content_draft = Some(DraftEV)) =>
        /\ pc = "returned"
        /\ final_result # None
        /\ final_result.content.word_count_actual = 7
        /\ final_result.content.keywords_used = <<KeywordEV, KeywordBattery>>
        /\ final_result.research_data.key_facts = <<FactA, FactB>>
        /\ final_result.status = "completed"

C9_Witness ==
    /\ scenario_request
    /\ research_result = ResearchEV
    /\ content_draft = Some(DraftEV)
    /\ pc = "returned"

\* C10: every returned record has status completed, echoes the six request
\* parameters unchanged, carries the research result and the draft result of
\* this invocation and a creation timestamp read from the clock; nothing
\* else is ever returned.
C10_ReturnedRecord ==
    final_result # None =>
        /\ pc = "returned"
        /\ DOMAIN final_result =
               {"topic", "content_type", "target_audience", "word_count", "tone",
                "keywords", "research_data", "content", "creation_timestamp", "status"}
        /\ final_result.status = "completed"
        /\ final_result.topic = request.topic
        /\ final_result.content_type = request.content_type
        /\ final_result.target_audience = request.target_audience
        /\ final_result.word_count = request.word_count
        /\ final_result.tone = request.tone
        /\ final_result.keywords = request.keywords
        /\ research_result # None
        /\ final_result.research_data = research_result
        /\ content_result # None
        /\ final_result.content = content_result
        /\ Some(final_result.content.draft_content) = content_draft
        /\ \E t \in 0..clock : final_result.creation_timestamp = isoformat(t)

C10_Witness ==
    /\ final_result # None
    /\ final_result.keywords = Some(<<KeywordEV, KeywordBattery>>)
    /\ final_result.word_count # final_result.content.word_count_actual
    /\ final_result.creation_timestamp = isoformat(1)
    /\ final_result.research_data.sources # <<>>

(***************************************************************************)
(* Properties of the transport endpoint.                                   *)
(***************************************************************************)
\* the header of the request being served is the configured secret
authorized == http.api_key # None /\ http.api_key.val = SecretKey

\* C11: a POST /content/create whose X-API-Key header is absent or differs
\* from the configured secret is answered with the authorization error, and
\* for it neither validate_input nor create_content has run, no agent was
\* called and nothing was sent to the completion client
C11_UnauthorizedRejectedBeforeOrchestrator ==
    (http # None /\ ~authorized) =>
        /\ response # None
        /\ response.status_code = 401
        /\ \A i \in 1..Len(http.trace) : http.trace[i] \notin {"validate_input", "create_content"}
        /\ pc = "idle"
        /\ request = None
        /\ calls = <<>>
        /\ prompts = <<>>

\* both cases of C11 are reachable through a body that is otherwise fine:
\* here the header is absent
C11_Witness ==
    /\ http # None
    /\ http.api_key = None
    /\ http.body.topic = TopicEV
    /\ response = Unauthorized

\* C12: an authorized POST /content/create whose topic is missing or empty,
\* also empty after trimming, is answered with a client error before
\* anything is sent to the completion client, never with a server error or a
\* record
C12_EmptyTopicClientError ==
    (/\ http # None
     /\ authorized
     /\ "topic" \in DOMAIN http.body => blank(http.body.topic)) =>
        /\ response # None
        /\ response.status_code \in 400..499
        /\ prompts = <<>>

(***************************************************************************)
(* Properties of the completion calls.                                     *)
(***************************************************************************)
\* the task descriptions the named agent has sent to the completion client
sent_by(agent) == {i \in 1..Len(prompts) : prompts[i].agent = agent}

\* C13: there are no retries: within one create_content invocation the
\* completion client is called at most once by the Research step and at
\* most once by the Draft step, exactly twice when the invocation succeeds,
\* exactly once when the Research completion fails, and never more than twice
C13_NoRetries ==
    /\ Cardinality(sent_by("Research Specialist")) <= 1
    /\ Cardinality(sent_by("Content Writer")) <= 1
    /\ Len(prompts) <= 2
    /\ pc = "returned" => Len(prompts) = 2
    /\ (pc = "raised" /\ thrown \in UpstreamFailures /\ ~happened("create_content_draft"))
           => Len(prompts) = 1

\* an invocation has succeeded after its two completion calls, one by each
\* agent
C13_Witness ==
    /\ pc = "returned"
    /\ Len(prompts) = 2
    /\ prompts[1].agent = "Research Specialist"
    /\ prompts[2].agent = "Content Writer"

\* the Research completion has failed after its one call
C13_WitnessResearchFails ==
    /\ pc = "raised"
    /\ thrown \in UpstreamFailures
    /\ calls = <<"research_topic", "research_topic:raise">>
    /\ Len(prompts) = 1

\* C14: create_content never rejects a request for the values of
\* content_type, target_audience, tone, research_depth or word_count: when
\* the topic is not empty, whatever these values are (an unknown tone, a
\* word count that is not positive), no validation error is raised and each
\* step, once invoked, is given these values unchanged
C14_ParametersPassThrough ==
    (request # None /\ ~blank(request.topic)) =>
        /\ pc = "raised" => thrown \in UpstreamFailures
        /\ happened("research_topic")
        /\ prompts[1].agent = "Research Specialist"
        /\ prompts[1].research_depth = request.research_depth
        /\ prompts[1].content_type = request.content_type
        /\ prompts[1].target_audience = request.target_audience
        /\ happened("research_topic:return") =>
               /\ happened("create_content_draft")
               /\ prompts[2].agent = "Content Writer"
               /\ prompts[2].content_type = request.content_type
               /\ prompts[2].target_audience = request.target_audience
               /\ prompts[2].word_count = request.word_count
               /\ prompts[2].tone = request.tone

\* both steps were invoked for an unknown tone, an unknown research depth and
\* a negative word count
C14_Witness ==
    /\ pc = "returned"
    /\ request.tone = "sarcastic"
    /\ request.research_depth = "bottomless"
    /\ request.word_count < 1
    /\ Len(prompts) = 2
    /\ final_result.status = "completed"

(***************************************************************************)
(* Properties of the result extractors.                                    *)
(***************************************************************************)
\* the positions where a line of the text starts, and the line that starts
\* at such a position: the characters up to the next newline
line_starts(text) == {1} \cup {i + 1 : i \in {j \in 1..Len(text) : text[j] = "\n"}}
line_at(text, a) ==
    LET ends == {j \in a..Len(text) : text[j] = "\n"}
        stop == IF ends = {} THEN Len(text) + 1
                ELSE CHOOSE j \in ends : \A k \in ends : j <= k
    IN  SubSeq(text, a, stop - 1)

\* the line contains one of the keywords, whatever the case of its letters
mentions(line, keywords) == \E keyword \in keywords : contains(lower(line), keyword)

\* entry is the line without its leading and trailing whitespace
trimmed_of(entry, line) ==
    /\ entry # <<>> => (entry[1] \notin Whitespace /\ entry[Len(entry)] \notin Whitespace)
    /\ \E a \in 0..Len(line) :
           /\ a + Len(entry) <= Len(line)
           /\ SubSeq(line, a + 1, a + Len(entry)) = entry
           /\ \A i \in 1..Len(line) : (i <= a \/ i > a + Len(entry)) => line[i] \in Whitespace

\* the bucket holds, in line order, one entry for each line of the text that
\* mentions a keyword: the line itself, or the line trimmed
bucket_of_lines(bucket, text, keywords, trimmed) ==
    LET matching == {a \in line_starts(text) : mentions(line_at(text, a), keywords)}
    IN  /\ Len(bucket) = Cardinality(matching)
        /\ \A a \in matching :
               LET entry == bucket[Cardinality({b \in matching : b <= a})]
               IN  IF trimmed THEN trimmed_of(entry, line_at(text, a))
                   ELSE entry = line_at(text, a)

\* the four buckets of the research result hold the matching lines of the
\* raw text
buckets_of_lines(trimmed) ==
    research_result # None =>
        LET text == research_result.research_findings
        IN  /\ bucket_of_lines(research_result.key_facts, text, KeyFactKeywords, trimmed)
            /\ bucket_of_lines(research_result.sources, text, SourceKeywords, trimmed)
            /\ bucket_of_lines(research_result.insights, text, InsightKeywords, trimmed)
            /\ bucket_of_lines(research_result.recommendations, text,
                               RecommendationKeywords, trimmed)

\* C15 as stated: every bucket of a research result is exactly the
\* sub-sequence of the lines of the raw text that contain one of the bucket's
\* keywords as a case-insensitive substring, in line order
C15_BucketsAreMatchingLines == buckets_of_lines(FALSE)

\* C15, amended: every bucket of a research result holds, in line order, the
\* lines of the raw text that contain one of the bucket's keywords as a
\* case-insensitive substring, each without its leading and trailing
\* whitespace; a line that matches no keyword of a bucket is not in it
C15_BucketsAreTrimmedMatchingLines == buckets_of_lines(TRUE)

\* a line sits in two buckets, trimmed, and the last line in none
C15_Witness ==
    /\ research_result # None
    /\ research_result.research_findings = TextMixed
    /\ Len(research_result.key_facts) = 2
    /\ research_result.key_facts[2] = research_result.sources[1]
    /\ Len(research_result.key_facts[2]) < Len(line_at(TextMixed, 8))
    /\ Len(research_result.insights) = 1
    /\ Len(research_result.recommendations) = 1

\* the characters p..q-1 of the text are all in the set
all_in(text, p, q, chars) == \A i \in p..(q - 1) : text[i] \in chars

\* the places of the lower-cased text where the label stands
label_places(lowered, label) ==
    {p \in 1..Len(lowered) :
        /\ p + Len(label) - 1 <= Len(lowered)
        /\ SubSeq(lowered, p, p + Len(label) - 1) = label}

\* the label stands at p of the lower-cased text, a run of the separators
\* follows it, and q is the first digit after that run
occurrence(lowered, label, separators, p, q) ==
    /\ p + Len(label) <= q
    /\ q <= Len(lowered)
    /\ all_in(lowered, p + Len(label), q, separators)
    /\ lowered[q] \in DigitChars

\* as occurrence, and a colon follows the label at once
occurrence_with_colon(lowered, label, p, q) ==
    /\ occurrence(lowered, label, SeparatorChars, p, q)
    /\ p + Len(label) < q
    /\ lowered[p + Len(label)] = ":"
    /\ all_in(lowered, p + Len(label) + 1, q, Whitespace)

\* the number written by the digits p..q of the text
number_at(text, p, q) ==
    LET value[i \in (p - 1)..q] ==
            IF i < p THEN 0
            ELSE 10 * value[i - 1]
                 + Cardinality({d \in 1..9 : text[i] \in {DecimalDigits[e + 1] : e \in d..9}})
    IN  value[q]

\* the score is the number written by the whole run of digits that starts at q
score_is_digits_from(score, text, q) ==
    \E r \in q..Len(text) :
        /\ all_in(text, q, r + 1, DigitChars)
        /\ (r = Len(text) \/ text[r + 1] \notin DigitChars)
        /\ score = Some(number_at(text, q, r))

\* C16 as stated, read with 'label: <digits>' as the label in any case, a
\* colon, optional whitespace and digits: a score is the integer written by
\* the digits of the first such occurrence in the raw text, and null exactly
\* when the text has no such occurrence
C16_ScoreIsFirstLabelColonDigits ==
    extraction # None =>
        LET text == extraction.text
            lowered == lower(text)
            places == {pq \in label_places(lowered, extraction.label) \X (1..Len(text)) :
                          occurrence_with_colon(lowered, extraction.label, pq[1], pq[2])}
        IN  /\ extraction.result = None <=> places = {}
            /\ \A pq \in places :
                   (\A other \in places : pq[1] <= other[1]) =>
                       score_is_digits_from(extraction.result, text, pq[2])

\* C16, amended: a score is the integer written by the run of digits of the
\* first place in the raw text where the label, in any case, is followed by a
\* possibly empty run of colons and whitespace and then a digit, and null
\* exactly when the text has no such place; the extractor always returns
C16_ScoreIsFirstLabelThenDigits ==
    extraction # None =>
        LET text == extraction.text
            lowered == lower(text)
            places == {pq \in label_places(lowered, extraction.label) \X (1..Len(text)) :
                          occurrence(lowered, extraction.label, SeparatorChars, pq[1], pq[2])}
        IN  /\ extraction.result = None <=> places = {}
            /\ \A pq \in places :
                   (\A other \in places : pq[1] <= other[1]) =>
                       score_is_digits_from(extraction.result, text, pq[2])

\* "score 7score40": the first of two occurrences gives the score, without a
\* colon
C16_Witness ==
    /\ extraction # None
    /\ extraction.method = "EditorAgent._extract_score"
    /\ extraction.text =
           <<"s", "c", "o", "r", "e", " ", "7", "s", "c", "o", "r", "e", "4", "0">>
    /\ extraction.result = Some(7)

(***************************************************************************)
(* Properties of concurrent callers.                                       *)
(***************************************************************************)
\* what caller t's own completions make of its own arguments
own_research(t) == parse_research_result(threads[t].answers[1], threads[t].request.topic)
own_content(t) ==
    draft_result(postprocess_output(threads[t].answers[2]), threads[t].request.keywords)
own_requirements(t) ==
    LET block == prepare_research_requirements(own_research(t))
    IN  IF block = <<>> THEN None ELSE Some(block)

\* C17: whatever the interleaving of two create_content calls on the one
\* task, the record a call returns is built from the arguments of that call,
\* from the research result of that call and from the draft of that call, and
\* the requirements block in the task description of its draft comes from
\* the research result of that same call
C17_NoSharedStateBetweenCalls ==
    \A t \in Threads :
        /\ Len(threads[t].prompts) = 2 =>
               /\ threads[t].prompts[2].topic = threads[t].request.topic
               /\ threads[t].prompts[2].tone = threads[t].request.tone
               /\ threads[t].prompts[2].additional_segment = own_requirements(t)
        /\ threads[t].pc = "returned" =>
               /\ threads[t].result.topic = threads[t].request.topic
               /\ threads[t].result.content_type = threads[t].request.content_type
               /\ threads[t].result.word_count = threads[t].request.word_count
               /\ threads[t].result.tone = threads[t].request.tone
               /\ threads[t].result.keywords = threads[t].request.keywords
               /\ threads[t].result.research_data = own_research(t)
               /\ threads[t].result.content = own_content(t)

\* the two calls overlap: one has returned its record while the other, with
\* other arguments and other completions, had its research and its draft
\* and has not yet compiled its record
C17_Witness ==
    /\ threads["caller 1"].pc = "returned"
    /\ threads["caller 2"].pc = "draft_done"
    /\ threads["caller 1"].request.topic # threads["caller 2"].request.topic
    /\ threads["caller 1"].answers[1] = TextMixed
    /\ threads["caller 2"].answers[1] = TextPlain
    /\ threads["caller 1"].answers[2] # threads["caller 2"].answers[2]
    /\ frames["caller 1"].research_result # frames["caller 2"].research_result

(***************************************************************************)
(* Properties of the capability methods.                                   *)
(***************************************************************************)
\* C18: every capability method rejects an empty or whitespace-only primary
\* text input with an error raised before the completion client is invoked:
\* research_topic, create_content_draft, review_content, optimize_content and
\* generate_content_ideas, and the other methods such as fact_check_content
\* and brainstorm_headlines
C18_EveryCapabilityRejectsEmptyInput ==
    (capability # None /\ blank(capability.input)) =>
        /\ capability.outcome = "raised"
        /\ capability.sent = <<>>

(***************************************************************************)
(* Properties of empty completions.                                        *)
(***************************************************************************)
\* C19: when the completion client answers both steps with the empty string,
\* create_content does not fail: it returns a completed record whose
\* research buckets are all empty, whose draft_content is empty and whose
\* word_count_actual is 0
C19_EmptyCompletionsGiveCompletedRecord ==
    (/\ research_result # None
     /\ research_result.research_findings = <<>>
     /\ content_draft = Some(<<>>)) =>
        /\ pc = "returned"
        /\ raised = None
        /\ final_result.status = "completed"
        /\ final_result.research_data.key_facts = <<>>
        /\ final_result.research_data.sources = <<>>
        /\ final_result.research_data.insights = <<>>
        /\ final_result.research_data.recommendations = <<>>
        /\ final_result.content.draft_content = <<>>
        /\ final_result.content.word_count_actual = 0

\* a call has returned after two empty completions
C19_Witness ==
    /\ pc = "returned"
    /\ Len(prompts) = 2
    /\ research_result.research_findings = <<>>
    /\ content_draft = Some(<<>>)
    /\ final_result.content.word_count_actual = 0
    /\ final_result.research_data.key_facts = <<>>

C21_KeywordsUsedAreRequestKeywords ==
    pc = "returned" =>
        /\ request.keywords # None =>
               /\ final_result.content.keywords_used = request.keywords.val
               /\ final_result.keywords = request.keywords
        /\ request.keywords = None =>
               /\ final_result.content.keywords_used = <<>>
               /\ final_result.keywords = None

\* the record lists both keywords, in order, and the draft has neither
C21_Witness ==
    /\ pc = "returned"
    /\ request.keywords = Some(<<KeywordEV, KeywordBattery>>)
    /\ final_result.content.keywords_used = <<KeywordEV, KeywordBattery>>
    /\ final_result.content.draft_content = TextPlain

\* the labels of the lines the block must have for a research result: one
\* for each of key_facts, sources and insights that is a key of it
labels_for(research) ==
    LET label_if(key, label) == IF key \in DOMAIN research THEN <<label>> ELSE <<>>
    IN  label_if("key_facts", KeyFactsLabel)
        \o label_if("sources", SourcesLabel)
        \o label_if("insights", InsightsLabel)

\* the entries of the three fields the block is built from
block_entries(research) ==
    UNION {{research[key][i] : i \in 1..Len(research[key])} :
              key \in DOMAIN research \cap {"key_facts", "sources", "insights"}}

\* a text of the research result that is not empty and is no part of an
\* entry of the three fields
foreign(text, research) ==
    text # <<>> /\ \A entry \in block_entries(research) : ~contains(entry, text)

\* C22: the requirements block is made of up to three labelled lines in the
\* order Key Facts, Credible Sources, Key Insights, joined by newlines; a
\* line is there exactly when its field is a key of the research result,
\* also when the field is an empty sequence; each line holds entries of its
\* own field only, and the recommendations and the raw text of the research
\* result are not in the block
C22_RequirementsBlockLines ==
    (writer_args # None /\ research_result # None) =>
        LET block == writer_args.additional_requirements
            lines == IF block = <<>> THEN <<>> ELSE split_lines(block)
            labels == labels_for(research_result)
            field(label) == CASE label = KeyFactsLabel -> research_result.key_facts
                              [] label = SourcesLabel -> research_result.sources
                              [] label = InsightsLabel -> research_result.insights
        IN  /\ Len(lines) = Len(labels)
            /\ \A i \in 1..Len(lines) :
                   /\ has_label(lines[i], labels[i])
                   /\ LET items == items_of(lines[i], labels[i])
                      IN  \A k \in 1..Len(items) : items[k] = field(labels[i])[k]
            /\ "recommendations" \in DOMAIN research_result =>
                   \A i \in 1..Len(research_result.recommendations) :
                       foreign(research_result.recommendations[i], research_result)
                           => ~contains(block, research_result.recommendations[i])
            /\ ("research_findings" \in DOMAIN research_result
                    /\ foreign(research_result.research_findings, research_result))
                   => ~contains(block, research_result.research_findings)

\* a research result without sources, with an empty insights list, with
\* recommendations and a raw text: the block has the two lines Key Facts and
\* Key Insights
C22_Witness ==
    /\ writer_args # None
    /\ research_result # None
    /\ DOMAIN research_result =
           {"key_facts", "insights", "research_findings", "recommendations"}
    /\ research_result.insights = <<>>
    /\ Len(split_lines(writer_args.additional_requirements)) = 2

\* the writer of the task has built its prompt in the current invocation
writer_prompted ==
    /\ agents # "stub"
    /\ happened("create_content_draft")
    /\ ~happened("create_content_draft:raise")

\* C23: the prompt of the writer holds an additional-requirements segment
\* exactly when the requirements block is a non-empty string, and then the
\* segment is the block; it holds a keywords segment exactly when keywords
\* is a non-empty sequence; with an empty block and no keywords it is built
\* from topic, content_type, target_audience, word_count and tone alone
C23_PromptSegments ==
    writer_prompted =>
        LET prompt == prompts[Len(prompts)]
            block == prepare_research_requirements(research_result)
            no_keywords == request.keywords = None \/ request.keywords.val = <<>>
        IN  /\ prompt.agent = "Content Writer"
            /\ prompt.additional_segment # None <=> block # <<>>
            /\ block # <<>> => prompt.additional_segment = Some(block)
            /\ prompt.keywords_segment # None <=> ~no_keywords
            /\ ~no_keywords =>
                   prompt.keywords_segment = Some(join(<<",", " ">>, request.keywords.val))
            /\ prompt =
                   [agent |-> "Content Writer",
                    topic |-> request.topic,
                    content_type |-> request.content_type,
                    target_audience |-> request.target_audience,
                    word_count |-> request.word_count,
                    tone |-> request.tone,
                    keywords_segment |-> prompt.keywords_segment,
                    additional_segment |-> prompt.additional_segment]

\* the writer was prompted with an empty block and with keywords None: the
\* prompt has neither segment
C23_Witness ==
    /\ writer_prompted
    /\ prepare_research_requirements(research_result) = <<>>
    /\ request.keywords = None
    /\ prompts[Len(prompts)].additional_segment = None
    /\ prompts[Len(prompts)].keywords_segment = None

\* the entries of the research lists that the text contains
research_used_in(text, research) ==
    {entry \in block_entries(research) : contains(text, entry)}

\* C24: in every record create_content returns, content.research_incorporated
\* is true, whatever the research result holds and whatever the draft says
C24_ResearchIncorporatedAlwaysTrue ==
    final_result # None => final_result.content.research_incorporated = TRUE

\* a record was returned with the flag set although every research list is
\* empty, so that the draft repeats nothing of the research
C24_Witness ==
    /\ final_result # None
    /\ final_result.content.research_incorporated = TRUE
    /\ final_result.content.draft_content # <<>>
    /\ DOMAIN final_result.research_data = {"key_facts", "sources", "insights"}
    /\ block_entries(final_result.research_data) = {}
    /\ research_used_in(final_result.content.draft_content,
                        final_result.research_data) = {}

\* C25: a step that puts a creation_timestamp into a record is the step in
\* which the writer's answer arrives, after a research call that returned,
\* and the timestamp is the reading of the clock at that step; a step that
\* ends the invocation with an error leaves no record and so no timestamp
C25_TimestampAfterDraft ==
    [][/\ (final_result' # None /\ final_result' # final_result) =>
              /\ pc = "draft_wait"
              /\ happened("research_topic:return")
              /\ calls' = Append(calls, "create_content_draft:return")
              /\ final_result'.creation_timestamp.isoformat = clock
       /\ pc' = "raised" => final_result' = None]_vars

\* a record was returned whose timestamp is a later reading of the clock
\* than the one at construction
C25_Witness ==
    /\ pc = "returned"
    /\ final_result # None
    /\ final_result.creation_timestamp.isoformat > 0
    /\ final_result.creation_timestamp.isoformat = clock

(***************************************************************************)
(* Properties of the task objects.                                         *)
(***************************************************************************)
\* C26: no step of create_content, whether the call ends with a record or
\* with an error, changes the task object (name, description,
\* expected_output, agent, writer_agent, research_agent, the underlying
\* task); the keywords stay what the caller passed and the research result
\* stays what the research step returned, and the record holds both as they
\* are
C26_CreateContentLeavesTaskAndInputs ==
    [][/\ task' = task
       /\ (pc # "idle" /\ pc' # "idle") => request' = request
       /\ (research_result # None /\ pc' # "idle") => research_result' = research_result
       /\ final_result' # None =>
              /\ final_result'.keywords = request'.keywords
              /\ final_result'.research_data = research_result']_vars

\* a call has returned its record, with keywords and a research result with
\* entries, and the task is as the constructor left it; the block given to
\* the writer was built from the research result
C26_Witness ==
    /\ pc = "returned"
    /\ task = ContentCreationTask
    /\ request.keywords = Some(<<KeywordEV, KeywordBattery>>)
    /\ final_result.keywords = request.keywords
    /\ block_entries(research_result) # {}
    /\ final_result.research_data = research_result
    /\ writer_args.additional_requirements # <<>>

\* the status label documented for each single-step method
status_label(method) ==
    CASE method = "review_content" -> "reviewed"
      [] method = "improve_content" -> "improved"
      [] method = "research_topic" -> "researched"
      [] method = "fact_check_content" -> "fact_checked"
      [] method = "optimize_content" -> "optimized"
      [] method = "generate_meta_tags" -> "meta_tags_generated"
      [] method = "generate_content_ideas" -> "ideas_generated"
      [] method = "brainstorm_headlines" -> "headlines_generated"

\* C28: a single-step method calls the method of its agent exactly once;
\* when the agent returns, the method returns a dict whose status is the
\* fixed label of the method and which holds what the agent returned; when
\* the agent fails, the failure is what leaves the method, and there is no
\* dict
C28_SingleStepWrappers ==
    wrapper # None =>
        /\ wrapper.agent_calls = <<wrapper.method.method>>
        /\ wrapper.pc \in {"agent_wait", "returned", "raised"}
        /\ wrapper.pc = "agent_wait" => (wrapper.result = None /\ wrapper.raised = None)
        /\ wrapper.pc = "returned" =>
               /\ wrapper.raised = None
               /\ wrapper.result # None
               /\ wrapper.result.status = status_label(wrapper.method.method)
               /\ wrapper.result[wrapper.method.data_key] \in AgentReturns
        /\ wrapper.pc = "raised" =>
               /\ wrapper.result = None
               /\ \/ wrapper.raised \in UpstreamFailures
                  \/ wrapper.raised.type = "ValueError" /\ blank(wrapper.input)

\* brainstorm_headlines has returned its dict after the one call of the agent
C28_Witness ==
    /\ wrapper # None
    /\ wrapper.method.method = "brainstorm_headlines"
    /\ wrapper.pc = "returned"
    /\ wrapper.agent_calls = <<"brainstorm_headlines">>
    /\ wrapper.result.status = "headlines_generated"
    /\ wrapper.result.headlines_data = DraftEV

\* fact_check_content has let the failure of its agent through
C28_WitnessFails ==
    /\ wrapper # None
    /\ wrapper.method.method = "fact_check_content"
    /\ wrapper.pc = "raised"
    /\ wrapper.raised \in UpstreamFailures
    /\ wrapper.result = None

\* description and expected_output of the task are those of its crewai Task
mirrored(t) ==
    /\ t.description = t.task.description
    /\ t.expected_output = t.task.expected_output

\* C29: after construction and after every update_description and
\* update_expected_output, description and expected_output of the task are
\* those of its underlying task object, and a step that changes the task
\* changes the description on both objects and nothing else, or the
\* expected output on both objects and nothing else
C29_TaskMirrorsUnderlyingTask ==
    /\ mirrored(task)
    /\ [][/\ mirrored(task')
          /\ task' # task =>
                 \/ task' = [task EXCEPT !.description = task'.description,
                                         !.task.description = task'.description]
                 \/ task' = [task EXCEPT !.expected_output = task'.expected_output,
                                         !.task.expected_output = task'.expected_output]]_vars

\* both updates have been applied to a Research task, with different texts
C29_Witness ==
    /\ task.name = "Research"
    /\ task.description = "Summarise the topic"
    /\ task.expected_output = "A bullet list"
    /\ task.task.description = "Summarise the topic"
    /\ task.task.expected_output = "A bullet list"
    /\ task.agent = "ResearchAgent"

(***************************************************************************)
(* Termination of create_content.                                          *)
(***************************************************************************)
\* C27: when every completion call comes to an end, a create_content call
\* that waits for a completion ends, with a record or with an error and
\* never with both, and it makes at most two completion calls
C27_CreateContentTerminates ==
    /\ [](Len(prompts) <= 2)
    /\ [](pc = "returned" => (final_result # None /\ raised = None))
    /\ [](pc = "raised" => (final_result = None /\ raised # None))
    /\ (pc \in {"research_wait", "draft_wait"}) ~> (pc \in {"returned", "raised"})

\* a call has ended with its record after two completion calls
C27_Witness ==
    /\ pc = "returned"
    /\ final_result # None
    /\ final_result.status = "completed"
    /\ raised = None
    /\ Len(prompts) = 2
    /\ calls = <<"research_topic", "research_topic:return", "create_content_draft",
                 "create_content_draft:return">>

====
